---------------------------- MODULE Spec2Model ----------------------------
(***************************************************************************)
(* Model of the bank-statement extraction pipeline of                      *)
(* Ledger-Lens/accounts/pdf_extractor.py (class BankStatementExtractor).   *)
(*                                                                         *)
(* Text.  A line of page text is a sequence of symbols.  Digits and the    *)
(* punctuation the code's regular expressions and splits look at           *)
(* ("." "," "/" "-" and the blank " ") are one symbol per character; a run *)
(* of letters ("SAR", "Date", "Transfer") is one symbol, a word of the     *)
(* Vocabulary.  A page is the sequence of lines page_text.split('\n')      *)
(* yields.  Numbers are parsed from their digits; an amount is an integer  *)
(* number of thousandths (Scale), so 100.00 is 100000 and 0.01 is 10.      *)
(*                                                                         *)
(* The module also models the HTTP views of                                *)
(* Ledger-Lens-backend/accounts/views.py with the PasscodeConfig row of    *)
(* accounts/models.py (section "The backend").                             *)
(***************************************************************************)
EXTENDS Integers, Sequences, FiniteSets, TLC

VARIABLES
    text_pages,          \* the page texts extract_text_from_pdf returned
    pc,                  \* position in process_bank_statement
    is_LTR,              \* header_info["is_LTR"]
    different_amount_format,
    language,
    account_info,
    transactions,        \* the segmenter's output list
    last_valid_date,     \* the segmenter's last accepted date, None at start
    page_idx,            \* the segmenter's loops: page, line
    line_idx,
    monthly_analysis,
    result,              \* what process_bank_statement returned or raised
    callee,              \* unit calls: the function called,
    args,                \*   its arguments
    ret,                 \*   and what it returned
    returned,
    now,                 \* backend: timezone.now(), in minutes
    config,              \* the PasscodeConfig table: <<>> or <<row>>
    session,             \* session key -> session['authenticated']
    uploads,             \* PDFUpload id -> row, for the rows that exist
    worker_pc,           \* PDFUpload id -> position of its background thread
    response,            \* the last response sent: endpoint and status
    worker,              \* PDFUpload id -> the locals of its background thread
    inflight,            \* session key -> the login request being handled
    checked              \* history: incorrect passcodes checked against the
                         \*   hash since the attempt counter was last reset

vars == <<text_pages, pc, is_LTR, different_amount_format, language,
          account_info, transactions, last_valid_date, page_idx, line_idx,
          monthly_analysis, result, callee, args, ret, returned,
          now, config, session, uploads, worker_pc, response,
          worker, inflight, checked>>

pipeline_vars == <<text_pages, pc, is_LTR, different_amount_format, language,
                   account_info, transactions, last_valid_date, page_idx, line_idx,
                   monthly_analysis, result>>

unit_vars == <<callee, args, ret, returned>>

\* What is live only while requests and threads overlap.
overlap_vars == <<worker, inflight, checked>>

backend_vars == <<now, config, session, uploads, worker_pc, response,
                  worker, inflight, checked>>

\* No request has reached the backend.
BackendIdle ==
    /\ now = 0
    /\ config = <<>>
    /\ session = <<>>
    /\ uploads = <<>>
    /\ worker_pc = <<>>
    /\ response = <<>>
    /\ worker = <<>>
    /\ inflight = <<>>
    /\ checked = 0

\* Python's None, for values that are sequences (a date tuple, a list).
None == <<>>

-----------------------------------------------------------------------------
(* Text primitives: str.strip, str.split, ' '.join, int(), the `in` test.  *)

DigitChars == <<"0", "1", "2", "3", "4", "5", "6", "7", "8", "9">>

IsDigit(c) == \E n \in 1..10 : DigitChars[n] = c

DigitValue(c) == (CHOOSE n \in 1..10 : DigitChars[n] = c) - 1

\* The least element of a set of positive indexes, 0 for the empty set.
FirstIndex(S) == IF S = {} THEN 0 ELSE CHOOSE j \in S : \A k \in S : j <= k

\* The index of the first non-blank symbol at or after i (Len+1 when none).
RECURSIVE SkipBlanks(_, _)
SkipBlanks(s, i) ==
    IF i > Len(s) \/ s[i] # " " THEN i ELSE SkipBlanks(s, i + 1)

\* The index of the last non-blank symbol at or before i (0 when none).
RECURSIVE SkipBlanksBack(_, _)
SkipBlanksBack(s, i) ==
    IF i < 1 \/ s[i] # " " THEN i ELSE SkipBlanksBack(s, i - 1)

\* str.strip()
Strip(s) == SubSeq(s, SkipBlanks(s, 1), SkipBlanksBack(s, Len(s)))

\* sep in line
Contains(s, c) == \E i \in 1..Len(s) : s[i] = c

\* str.split(sep) for a one-character separator: the parts between the
\* occurrences of sep, empty parts included.
RECURSIVE SplitFrom(_, _, _)
SplitFrom(s, sep, start) ==
    LET j == FirstIndex({k \in start..Len(s) : s[k] = sep})
    IN  IF j = 0 THEN <<SubSeq(s, start, Len(s))>>
        ELSE <<SubSeq(s, start, j - 1)>> \o SplitFrom(s, sep, j + 1)

Split(s, sep) == SplitFrom(s, sep, 1)

\* ' '.join(lines)
RECURSIVE JoinLines(_)
JoinLines(ls) ==
    IF Len(ls) = 0 THEN <<>>
    ELSE IF Len(ls) = 1 THEN ls[1]
    ELSE ls[1] \o <<" ">> \o JoinLines(Tail(ls))

\* The value of a run of digits s[i..j], most significant first.
RECURSIVE DigitsValue(_, _, _)
DigitsValue(s, i, j) ==
    IF j < i THEN 0 ELSE DigitsValue(s, i, j - 1) * 10 + DigitValue(s[j])

\* n written with w digits, zero-padded.
RECURSIVE Digits(_, _)
Digits(n, w) ==
    IF w = 0 THEN <<>> ELSE Digits(n \div 10, w - 1) \o <<DigitChars[(n % 10) + 1]>>

\* int(part): blanks around are ignored, then an optional "-" and one or more
\* digits; anything else is a ValueError (ok = FALSE).
IntParse(part) ==
    LET t == Strip(part)
        neg == Len(t) > 0 /\ t[1] = "-"
        first == IF neg THEN 2 ELSE 1
    IN  IF first > Len(t) \/ \E i \in first..Len(t) : ~IsDigit(t[i])
        THEN [ok |-> FALSE, v |-> 0]
        ELSE [ok |-> TRUE,
              v |-> (IF neg THEN -1 ELSE 1) * DigitsValue(t, first, Len(t))]

-----------------------------------------------------------------------------
(* Configuration (load_default_config).                                    *)

\* config["date_patterns"]; the positions are Python's 0-based indexes.
DatePatterns ==
    << [separators |-> <<"/", "-">>,
        year_position |-> 0, month_position |-> 1, day_position |-> 2],
       [separators |-> <<"/", "-">>,
        year_position |-> 2, month_position |-> 1, day_position |-> 0] >>

MinYear == 1900
MaxYear == 2100

-----------------------------------------------------------------------------
(* extract_date_from_text                                                  *)

\* DateInRange without the month's upper limit.
DateInRangeAnyMonth(year, month, day) ==
    /\ MinYear <= year /\ year <= MaxYear
    /\ 1 <= month
    /\ 1 <= day /\ day <= 31

\* The "Basic validation" of a parsed (year, month, day).
DateInRange(year, month, day) ==
    /\ MinYear <= year /\ year <= MaxYear
    /\ 1 <= month /\ month <= 12
    /\ 1 <= day /\ day <= 31

\* One template with one separator on one (stripped) line: the date, or None
\* when the separator is absent, the parts are fewer than 3, a part at a
\* template position is missing (IndexError) or no integer (ValueError), or
\* the values are out of range.
TryDatePattern(line, pattern_config, separator) ==
    IF ~Contains(line, separator) THEN None
    ELSE LET parts == Split(line, separator)
             year_pos == pattern_config.year_position + 1
             month_pos == pattern_config.month_position + 1
             day_pos == pattern_config.day_position + 1
         IN  IF Len(parts) < 3 THEN None
             ELSE IF \E p \in {year_pos, month_pos, day_pos} : p > Len(parts)
             THEN None
             ELSE LET year == IntParse(parts[year_pos])
                      month == IntParse(parts[month_pos])
                      day == IntParse(parts[day_pos])
                  IN  IF year.ok /\ month.ok /\ day.ok
                         /\ DateInRange(year.v, month.v, day.v)
                      THEN <<year.v, month.v, day.v>>
                      ELSE None

\* The loops over the templates (outer) and their separators (inner) on one
\* line, from template p and separator s on: the first date found.
RECURSIVE DateFromLine(_, _, _)
DateFromLine(line, p, s) ==
    IF p > Len(DatePatterns) THEN None
    ELSE IF s > Len(DatePatterns[p].separators) THEN DateFromLine(line, p + 1, 1)
    ELSE LET d == TryDatePattern(line, DatePatterns[p],
                                 DatePatterns[p].separators[s])
         IN  IF d # None THEN d ELSE DateFromLine(line, p, s + 1)

\* extract_date_from_text(text), text given as its lines: the first line, in
\* order, that yields a date; blank lines are skipped.
RECURSIVE extract_date_from_text(_)
extract_date_from_text(lines) ==
    IF Len(lines) = 0 THEN None
    ELSE LET line == Strip(lines[1])
             d == IF Len(line) = 0 THEN None ELSE DateFromLine(line, 1, 1)
         IN  IF d # None THEN d ELSE extract_date_from_text(Tail(lines))

-----------------------------------------------------------------------------
(* Numbers: float(), str(float), str.replace, str.find.                    *)

\* Thousandths per unit: amounts are integers, in thousandths.
Scale == 10 * 10 * 10

\* max(i, first index >= i that is no digit)
RECURSIVE DigitRunEnd(_, _)
DigitRunEnd(s, i) ==
    IF i <= Len(s) /\ IsDigit(s[i]) THEN DigitRunEnd(s, i + 1) ELSE i

RECURSIVE DigitCommaRunEnd(_, _)
DigitCommaRunEnd(s, i) ==
    IF i <= Len(s) /\ (IsDigit(s[i]) \/ s[i] = ",")
    THEN DigitCommaRunEnd(s, i + 1) ELSE i

\* sub occurs in s at index i
MatchesAt(s, sub, i) ==
    /\ i >= 1
    /\ i + Len(sub) - 1 <= Len(s)
    /\ \A k \in 1..Len(sub) : s[i + k - 1] = sub[k]

\* sub in s
IsSubstr(sub, s) == \E i \in 1..(Len(s) + 1) : MatchesAt(s, sub, i)

\* s.replace(sub, ""), sub not empty: the occurrences left to right, not
\* overlapping.
RECURSIVE ReplaceFrom(_, _, _)
ReplaceFrom(s, sub, i) ==
    LET j == FirstIndex({k \in i..Len(s) : MatchesAt(s, sub, k)})
    IN  IF j = 0 THEN SubSeq(s, i, Len(s))
        ELSE SubSeq(s, i, j - 1) \o ReplaceFrom(s, sub, j + Len(sub))

Replace(s, sub) == ReplaceFrom(s, sub, 1)

\* The fraction digits s[i..j] as thousandths (digits past the third are
\* beyond the model's resolution and dropped).
FractionValue(s, i, j) ==
    LET n == j - i + 1
    IN  IF n <= 0 THEN 0
        ELSE IF n = 1 THEN DigitsValue(s, i, j) * 100
        ELSE IF n = 2 THEN DigitsValue(s, i, j) * 10
        ELSE DigitsValue(s, i, i + 2)

\* float(text): blanks around ignored; an optional "-", digits, an optional
\* "." and digits, with at least one digit; anything else is a ValueError.
FloatParse(text) ==
    LET t == Strip(text)
        neg == Len(t) > 0 /\ t[1] = "-"
        first == IF neg THEN 2 ELSE 1
        a == DigitRunEnd(t, first)
        dot == a <= Len(t) /\ t[a] = "."
        b == IF dot THEN DigitRunEnd(t, a + 1) ELSE a
        ndigits == (a - first) + (IF dot THEN b - (a + 1) ELSE 0)
    IN  IF b <= Len(t) \/ ndigits = 0
        THEN [ok |-> FALSE, v |-> 0]
        ELSE [ok |-> TRUE,
              v |-> (IF neg THEN -1 ELSE 1)
                    * (DigitsValue(t, first, a - 1) * Scale
                       + (IF dot THEN FractionValue(t, a + 1, b - 1) ELSE 0))]

\* The decimal digits of n >= 0, no padding ("0" for 0).
RECURSIVE NatStr(_)
NatStr(n) ==
    IF n < 10 THEN <<DigitChars[n + 1]>>
    ELSE NatStr(n \div 10) \o <<DigitChars[(n % 10) + 1]>>

\* str(x) of a float x given in thousandths: the integer part, ".", and the
\* fraction without trailing zeros but with at least one digit ("100.0",
\* "-20.0", "500.005").
FloatStr(v) ==
    LET a == IF v < 0 THEN -v ELSE v
        f == a % Scale
        frac == IF f % 100 = 0 THEN Digits(f \div 100, 1)
                ELSE IF f % 10 = 0 THEN Digits(f \div 10, 2)
                ELSE Digits(f, 3)
    IN  (IF v < 0 THEN <<"-">> ELSE <<>>) \o NatStr(a \div Scale) \o <<".">> \o frac

-----------------------------------------------------------------------------
(* Vocabulary: the letter runs of the model's texts, with their lengths in *)
(* characters.  A marker the code tests with `in` (a currency symbol,      *)
(* "Date", "IPS") is a word of its own: no other word of the vocabulary    *)
(* contains one.  The Arabic presentation-form marker of line 421 is the   *)
(* two words AR_TARIKH AR_ALAMALIYA.                                       *)

WordLen(w) ==
    CASE w = "SAR" -> 3
      [] w = "SR" -> 2
      [] w = "IPS" -> 3
      [] w = "Date" -> 4
      [] w = "Ref" -> 3
      [] w = "Transfer" -> 8
      [] w = "description" -> 11
      [] w = "AR_TARIKH" -> 5
      [] w = "AR_ALAMALIYA" -> 7
      [] w = "Statement" -> 9
      [] w = "Narrative" -> 60
      [] w \in {"On"} -> 2
      [] w \in {"The", "AR_ISM", "AR_RAQM"} -> 3
      [] w \in {"City", "Name", "IBAN", "AR_HISAB", "AR_RASEED", "AR_KHILAL",
                "AR_RIYAL"} -> 4
      [] w \in {"AR_MADINA", "AR_AIBAN"} -> 5
      [] w \in {"Holder", "Number", "Period", "AR_ALAMEEL", "AR_ALHISAB",
                "AR_ALRASEED", "AR_ALFATRA"} -> 6
      [] w \in {"Account", "Opening", "Balance", "Closing", "AR_ALMAMEEL",
                "AR_ALMADINA", "AR_ALAIBAN", "AR_ALIQFAL", "AR_ALMALIYA"} -> 7
      [] w \in {"Customer", "AR_ALIQFALI"} -> 8
      [] w \in {"AR_ALIFTITAHI"} -> 9
      [] OTHER -> 1

\* The length in characters of the symbols s[1..n].
RECURSIVE ExtraLen(_, _)
ExtraLen(s, W) ==
    IF W = {} THEN 0
    ELSE LET k == CHOOSE k \in W : TRUE
         IN  (WordLen(s[k]) - 1) + ExtraLen(s, W \ {k})

CharLen(s, n) == n + ExtraLen(s, {k \in 1..n : WordLen(s[k]) > 1})

\* s.find(sub, start) as an index into the symbols (0 when not found); start
\* is a symbol index.
FindFrom(s, sub, i) == FirstIndex({k \in i..Len(s) : MatchesAt(s, sub, k)})

\* config["amount_patterns"]["currency_symbols"]: SAR, SR and the two Arabic
\* forms (the second is written with a "." in the middle).
CurrencySymbols ==
    << <<"SAR">>, <<"SR">>, <<"AR_RIYAL">>, <<"AR_R", ".", "AR_S">> >>

\* config["transaction_table"]["search_lines_after"]
SearchLinesAfter == 10

-----------------------------------------------------------------------------
(* Amount recognition.                                                     *)

\* A float() that failed: the ValueError parse_transaction_line catches.
ValueError == [ok |-> FALSE, v |-> 0]

\* One match of r'[\d,]+\.?\d*\s*SAR' starting at p: a run of digits and
\* commas, an optional "." and digits, blanks, the word SAR.
StdAmountAt(s, p) ==
    LET a == DigitCommaRunEnd(s, p)
        b == IF a <= Len(s) /\ s[a] = "." THEN a + 1 ELSE a
        c == DigitRunEnd(s, b)
        d == SkipBlanks(s, c)
    IN  IF a > p /\ d <= Len(s) /\ s[d] = "SAR"
        THEN [ok |-> TRUE, cell |-> SubSeq(s, p, d), end |-> d]
        ELSE [ok |-> FALSE, cell |-> <<>>, end |-> p]

\* re.findall(r'[\d,]+\.?\d*\s*SAR', full_text) from index p on.
RECURSIVE FindAllStd(_, _)
FindAllStd(s, p) ==
    LET q == FirstIndex({k \in p..Len(s) : StdAmountAt(s, k).ok})
    IN  IF q = 0 THEN <<>>
        ELSE <<StdAmountAt(s, q).cell>> \o FindAllStd(s, StdAmountAt(s, q).end + 1)

\* CellToFloat leaving the currency in the cell.
CellToFloatWithCurrency(cell) == FloatParse(Replace(cell, <<",">>))

\* float(cell.replace(' SAR', '').replace(',', ''))
CellToFloat(cell) ==
    FloatParse(Replace(Replace(cell, <<" ", "SAR">>), <<",">>))

\* The groups (?:,\d{3})* from index i: the index after the last group.
RECURSIVE ThousandsEnd(_, _)
ThousandsEnd(s, i) ==
    IF /\ i + 3 <= Len(s)
       /\ s[i] = ","
       /\ IsDigit(s[i + 1]) /\ IsDigit(s[i + 2]) /\ IsDigit(s[i + 3])
       /\ ~(i + 4 <= Len(s) /\ IsDigit(s[i + 4]))
    THEN ThousandsEnd(s, i + 4)
    ELSE i

\* One match of r'(?<!\d)-?\d{1,3}(?:,\d{3})*\.\d+(?!\d)' starting at p.
AltAmountAt(s, p) ==
    LET first == IF s[p] = "-" THEN p + 1 ELSE p
        a == DigitRunEnd(s, first)
        b == ThousandsEnd(s, a)
        c == DigitRunEnd(s, b + 1)
    IN  IF /\ ~(p > 1 /\ IsDigit(s[p - 1]))
           /\ a - first \in 1..3
           /\ b <= Len(s) /\ s[b] = "."
           /\ c > b + 1
        THEN [ok |-> TRUE, cell |-> SubSeq(s, p, c - 1), end |-> c - 1]
        ELSE [ok |-> FALSE, cell |-> <<>>, end |-> p]

\* re.findall of the pattern above from index p on.
RECURSIVE FindAllAlt(_, _)
FindAllAlt(s, p) ==
    LET q == FirstIndex({k \in p..Len(s) : AltAmountAt(s, k).ok})
    IN  IF q = 0 THEN <<>>
        ELSE <<AltAmountAt(s, q).cell>> \o FindAllAlt(s, AltAmountAt(s, q).end + 1)

\* The character distance the code allows between two "consecutive" amounts.
ProximityLimit == 50

\* The characters between the first occurrence of all_amounts[i] and the
\* next occurrence of all_amounts[i + 1] after it.
AmountGap(s, all_amounts, i) ==
    LET current_pos == FindFrom(s, all_amounts[i], 1)
        after == current_pos + Len(all_amounts[i])
        next_pos == FindFrom(s, all_amounts[i + 1], after)
    IN  IF next_pos = 0 THEN 0 - CharLen(s, after - 1) - 1   \* find gave -1
        ELSE CharLen(s, next_pos - 1) - CharLen(s, after - 1)

\* rough_amounts: the first neighbouring pair within the limit, else the
\* first two amounts (or the only one, or none).
RECURSIVE ClosePairFrom(_, _, _)
ClosePairFrom(s, all_amounts, i) ==
    IF i > Len(all_amounts) - 1 THEN <<>>
    ELSE IF AmountGap(s, all_amounts, i) <= ProximityLimit
         THEN <<all_amounts[i], all_amounts[i + 1]>>
         ELSE ClosePairFrom(s, all_amounts, i + 1)

RoughAmounts(full_text) ==
    LET all_amounts == FindAllAlt(full_text, 1)
        close == ClosePairFrom(full_text, all_amounts, 1)
    IN  IF close # <<>> THEN close
        ELSE SubSeq(all_amounts, 1, IF Len(all_amounts) < 2 THEN Len(all_amounts) ELSE 2)

Min(a, b) == IF a < b THEN a ELSE b
Max(a, b) == IF a < b THEN b ELSE a

\* AlternateRules keeping two positive amounts in the order of the text.
AlternateRulesUnordered(first_amount, second_amount) ==
    IF first_amount < 0 /\ second_amount > 0
    THEN <<first_amount, 0, second_amount>>
    ELSE IF first_amount > 0 /\ second_amount > 0
    THEN <<0, first_amount, second_amount>>
    ELSE <<first_amount, second_amount>>

\* The "Apply rules" step of extract_amounts on the two selected amounts.
AlternateRules(first_amount, second_amount) ==
    IF first_amount < 0 /\ second_amount > 0
    THEN <<first_amount, 0, second_amount>>
    ELSE IF first_amount > 0 /\ second_amount > 0
    THEN <<0, Min(first_amount, second_amount), Max(first_amount, second_amount)>>
    ELSE <<first_amount, second_amount>>

\* extract_amounts(full_text)
extract_amounts(full_text) ==
    LET rough_amounts == RoughAmounts(full_text)
    IN  IF Len(rough_amounts) < 2 THEN <<>>
        ELSE AlternateRules(FloatParse(Replace(rough_amounts[1], <<",">>)).v,
                            FloatParse(Replace(rough_amounts[2], <<",">>)).v)

\* parse_amount_sequence taking the first of two amounts for the credit.
parse_amount_sequence_credit(amounts) ==
    IF Len(amounts) = 0 THEN <<0, 0, 0>>
    ELSE IF Len(amounts) >= 3 THEN <<amounts[1], amounts[2], amounts[3]>>
    ELSE IF Len(amounts) = 2 THEN <<0, amounts[1], amounts[2]>>
    ELSE <<0, 0, amounts[1]>>

\* parse_amount_sequence(amounts): (debit, credit, balance)
parse_amount_sequence(amounts) ==
    IF Len(amounts) = 0 THEN <<0, 0, 0>>
    ELSE IF Len(amounts) >= 3 THEN <<amounts[1], amounts[2], amounts[3]>>
    ELSE IF Len(amounts) = 2 THEN <<amounts[1], 0, amounts[2]>>
    ELSE <<0, 0, amounts[1]>>

\* str.split(): the blank-separated words of a text, none empty.
Words(s) == SelectSeq(Split(s, " "), LAMBDA word : Len(word) > 0)

\* detect_amounts_in_text(text, currency_symbols)
detect_amounts_in_text(text) ==
    \/ \E k \in 1..Len(CurrencySymbols) : IsSubstr(CurrencySymbols[k], text)
    \/ \E k \in 1..Len(Words(text)) :
          LET clean_word ==
                  Replace(Replace(Replace(Words(text)[k], <<",">>), <<".">>), <<"-">>)
          IN  /\ Len(clean_word) >= 3
              /\ \A j \in 1..Len(clean_word) : IsDigit(clean_word[j])

-----------------------------------------------------------------------------
(* Dates as calendar values: date_to_datetime.                             *)

IsLeapYear(y) == (y % 4 = 0 /\ y % 100 # 0) \/ y % 400 = 0

DaysInMonth(y, m) ==
    IF m = 2 THEN (IF IsLeapYear(y) THEN 29 ELSE 28)
    ELSE IF m \in {4, 6, 9, 11} THEN 30
    ELSE 31

\* datetime(y, m, d) raises ValueError unless this holds.
IsCalendarDate(y, m, d) ==
    /\ 1 <= y /\ y <= 9999
    /\ 1 <= m /\ m <= 12
    /\ 1 <= d /\ d <= DaysInMonth(y, m)

\* A date value is a tuple of integers (the template recognizer's) or a
\* string (the fixed recognizer's, a sequence of symbols).
IsTupleDate(date) == Len(date) = 3 /\ \A k \in 1..3 : date[k] \in Int

\* date_to_datetime(date_str): <<y, m, d>>, or None when the value is no
\* date string or no calendar date (every exception gives None).
date_to_datetime(date_str) ==
    IF date_str = None THEN None
    ELSE IF IsTupleDate(date_str)
    THEN IF IsCalendarDate(date_str[1], date_str[2], date_str[3])
         THEN date_str ELSE None
    ELSE IF Contains(date_str, "/")
    THEN LET parts == Split(date_str, "/")
             ymd == IF Len(parts) = 3
                    THEN IF Len(parts[1]) = 4
                         THEN <<IntParse(parts[1]), IntParse(parts[2]), IntParse(parts[3])>>
                         ELSE <<IntParse(parts[3]), IntParse(parts[2]), IntParse(parts[1])>>
                    ELSE <<>>
         IN  IF ymd # <<>> /\ ymd[1].ok /\ ymd[2].ok /\ ymd[3].ok
                /\ IsCalendarDate(ymd[1].v, ymd[2].v, ymd[3].v)
             THEN <<ymd[1].v, ymd[2].v, ymd[3].v>>
             ELSE None
    ELSE IF Contains(date_str, "-")
    THEN LET parts == Split(date_str, "-")
             ymd == IF Len(parts) = 3
                    THEN <<IntParse(parts[1]), IntParse(parts[2]), IntParse(parts[3])>>
                    ELSE <<>>
         IN  IF ymd # <<>> /\ ymd[1].ok /\ ymd[2].ok /\ ymd[3].ok
                /\ IsCalendarDate(ymd[1].v, ymd[2].v, ymd[3].v)
             THEN <<ymd[1].v, ymd[2].v, ymd[3].v>>
             ELSE None
    ELSE None

\* datetime a < datetime b
DateBefore(a, b) ==
    \/ a[1] < b[1]
    \/ a[1] = b[1] /\ a[2] < b[2]
    \/ a[1] = b[1] /\ a[2] = b[2] /\ a[3] < b[3]

-----------------------------------------------------------------------------
(* The fixed (RTL) recognizers.                                            *)

\* One match of r'(\d{1,3}(?:,\d{3})*(?:\.\d{2})?)\s*SAR' starting at p; the
\* match may start inside a longer run of digits.
RtlAmountAt(s, p) ==
    LET a == DigitRunEnd(s, p)
        b == ThousandsEnd(s, a)
        dec == /\ b + 2 <= Len(s) /\ s[b] = "."
               /\ IsDigit(s[b + 1]) /\ IsDigit(s[b + 2])
        c == IF dec THEN b + 3 ELSE b
        d == SkipBlanks(s, c)
    IN  IF a - p \in 1..3 /\ d <= Len(s) /\ s[d] = "SAR"
        THEN [ok |-> TRUE, cell |-> SubSeq(s, p, c - 1)]
        ELSE [ok |-> FALSE, cell |-> <<>>]

\* extract_single_amount_rtl(line): the leftmost match as a float, or no
\* amount (ok = FALSE: the code's None).
extract_single_amount_rtl(line) ==
    LET p == FirstIndex({k \in 1..Len(line) : RtlAmountAt(line, k).ok})
    IN  IF p = 0 THEN [ok |-> FALSE, v |-> 0]
        ELSE FloatParse(Replace(RtlAmountAt(line, p).cell, <<",">>))

\* r'(\d{4}/\d{2}/\d{2})' matches at p
RtlDateAt(s, p) ==
    /\ p + 9 <= Len(s)
    /\ \A k \in {0, 1, 2, 3, 5, 6, 8, 9} : IsDigit(s[p + k])
    /\ s[p + 4] = "/" /\ s[p + 7] = "/"

\* extract_date_from_line_rtl(line): the leftmost match, a string, or None.
extract_date_from_line_rtl(line) ==
    LET p == FirstIndex({k \in 1..Len(line) : RtlDateAt(line, k)})
    IN  IF p = 0 THEN None ELSE SubSeq(line, p, p + 9)

-----------------------------------------------------------------------------
(* Descriptions.                                                           *)

\* The description's length limit, in characters.
DescriptionLimit == 100

\* A word of a date shape: with "/" read as "-", exactly three parts, all of
\* them digits.
IsDateWord(word) ==
    /\ Contains(word, "/") \/ Contains(word, "-")
    /\ LET parts == Split([k \in 1..Len(word) |->
                              IF word[k] = "/" THEN "-" ELSE word[k]], "-")
       IN  /\ Len(parts) = 3
           /\ \A k \in 1..3 :
                 /\ Len(parts[k]) > 0
                 /\ \A j \in 1..Len(parts[k]) : IsDigit(parts[k][j])

\* ' '.join(words)
JoinWords(ws) == JoinLines(ws)

\* remove_dates_from_text(text)
remove_dates_from_text(text) ==
    JoinWords(SelectSeq(Words(text), LAMBDA word : ~IsDateWord(word)))

\* s.replace(x, "") for every x of xs, in order.
RECURSIVE ReplaceEach(_, _, _)
ReplaceEach(s, xs, k) ==
    IF k > Len(xs) THEN s ELSE ReplaceEach(Replace(s, xs[k]), xs, k + 1)

\* One line of the window as the description loop cleans it: the amounts'
\* str() texts, the date words and the currency symbols removed, blanks
\* collapsed.
CleanLine(line, amounts) ==
    LET amount_strs == [k \in 1..Len(amounts) |-> FloatStr(amounts[k])]
        no_amounts == ReplaceEach(line, amount_strs, 1)
        no_dates == remove_dates_from_text(no_amounts)
        no_currency == ReplaceEach(no_dates, CurrencySymbols, 1)
    IN  JoinWords(Words(no_currency))

\* text[:n] in characters.  A word the limit cuts is kept as the symbol
\* "CUT" (which of its letters remain is not tracked).
Truncate(s, n) ==
    IF CharLen(s, Len(s)) <= n THEN s
    ELSE LET whole == CHOOSE k \in 0..Len(s) :
                          /\ CharLen(s, k) <= n
                          /\ CharLen(s, k + 1) > n
         IN  SubSeq(s, 1, whole) \o (IF CharLen(s, whole) < n THEN <<"CUT">> ELSE <<>>)

\* extract_transaction_description(search_lines, amounts)
extract_transaction_description(search_lines, amounts) ==
    LET RECURSIVE Parts(_)
        Parts(k) ==
            IF k > Len(search_lines) THEN <<>>
            ELSE LET clean_line == CleanLine(search_lines[k], amounts)
                 IN  IF Len(clean_line) > 0 THEN <<clean_line>> \o Parts(k + 1)
                     ELSE Parts(k + 1)
        description_parts == Parts(1)
        first3 == SubSeq(description_parts, 1,
                         IF Len(description_parts) < 3 THEN Len(description_parts) ELSE 3)
    IN  Truncate(JoinLines(first3), DescriptionLimit)

\* extract_rtl_transaction_description(search_lines, amounts, date_str):
\* the lines after the first 3 lines holding SAR, up to and with the line
\* holding date_str; the non-blank ones joined.
extract_rtl_transaction_description(search_lines, date_str) ==
    LET RECURSIVE Collect(_, _)
        Collect(k, amount_lines_skipped) ==
            IF k > Len(search_lines) THEN <<>>
            ELSE IF IsSubstr(<<"SAR">>, search_lines[k]) /\ amount_lines_skipped < 3
            THEN Collect(k + 1, amount_lines_skipped + 1)
            ELSE IF amount_lines_skipped >= 3
            THEN IF IsSubstr(date_str, search_lines[k])
                 THEN <<search_lines[k]>>
                 ELSE <<search_lines[k]>> \o Collect(k + 1, amount_lines_skipped)
            ELSE Collect(k + 1, amount_lines_skipped)
        description_lines == Collect(1, 0)
    IN  JoinLines(SelectSeq(description_lines, LAMBDA l : Len(Strip(l)) > 0))

-----------------------------------------------------------------------------
(* Candidates: parse_transaction_line, parse_transaction_line_rtl.  The    *)
(* result is <<transaction>>, or <<>> for None.                            *)

\* lines[i:i + n] with Python's 0-based i
Window(lines, i, n) ==
    SubSeq(lines, i + 1, IF i + n < Len(lines) THEN i + n ELSE Len(lines))

\* The standard format's amounts: every currency-tagged number of the
\* window as a float; ok = FALSE when a float() raises.
StandardAmounts(full_text) ==
    LET rough_amounts == FindAllStd(full_text, 1)
        floats == [k \in 1..Len(rough_amounts) |-> CellToFloat(rough_amounts[k])]
    IN  [ok |-> \A k \in 1..Len(floats) : floats[k].ok,
         amounts |-> [k \in 1..Len(floats) |-> floats[k].v]]

Transaction(date, description, debit, credit, balance) ==
    [date |-> date, description |-> description,
     debit |-> debit, credit |-> credit, balance |-> balance]

\* BuildTransaction without the check of the debit and the credit.
BuildTransactionAnyAmount(date_str, found, dcb, description) ==
    IF date_str = None THEN <<>>
    ELSE IF ~found.ok THEN <<>>
    ELSE IF Len(found.amounts) = 0 THEN <<>>
    ELSE IF Len(Strip(description)) = 0 THEN <<>>
    ELSE <<Transaction(date_str, description, dcb[1], dcb[2], dcb[3])>>

\* The checks at the end of parse_transaction_line: amounts found, a debit
\* or a credit that is not 0, a description.  found is the amounts with
\* ok = FALSE when a float() raised (the except clause returns None), and
\* dcb is <<debit, credit, balance>>.
BuildTransaction(date_str, found, dcb, description) ==
    IF date_str = None THEN <<>>
    ELSE IF ~found.ok THEN <<>>
    ELSE IF Len(found.amounts) = 0 THEN <<>>
    ELSE IF dcb[1] = 0 /\ dcb[2] = 0 THEN <<>>
    ELSE IF Len(Strip(description)) = 0 THEN <<>>
    ELSE <<Transaction(date_str, description, dcb[1], dcb[2], dcb[3])>>

\* The amounts of the window, by the format.
FoundAmounts(full_text, fmt) ==
    IF fmt THEN [ok |-> TRUE, amounts |-> extract_amounts(full_text)]
    ELSE StandardAmounts(full_text)

ParseWindow(date_str, search_lines, found) ==
    BuildTransaction(date_str, found, parse_amount_sequence(found.amounts),
                     extract_transaction_description(search_lines, found.amounts))

ParseCandidate(date_str, search_lines, fmt) ==
    ParseWindow(date_str, search_lines, FoundAmounts(JoinLines(search_lines), fmt))

\* parse_transaction_line(lines, line_index, language, different_amount_format)
parse_transaction_line(lines, line_index, fmt) ==
    ParseCandidate(extract_date_from_text(<<lines[line_index + 1]>>),
                   Window(lines, line_index, SearchLinesAfter), fmt)

\* The checks at the end of parse_transaction_line_rtl; bcd is
\* <<balance, credit, debit>>.
BuildTransactionRtl(date_str, found, bcd, description) ==
    IF date_str = None THEN <<>>
    ELSE IF ~found.ok THEN <<>>
    ELSE IF Len(found.amounts) = 0 THEN <<>>
    ELSE IF bcd[3] = 0 /\ bcd[2] = 0 THEN <<>>
    ELSE IF Len(Strip(description)) = 0 THEN <<>>
    ELSE <<Transaction(date_str, description, bcd[3], bcd[2], bcd[1])>>

ParseWindowRtl(date_str, search_lines, found) ==
    BuildTransactionRtl(date_str, found, parse_amount_sequence(found.amounts),
                        extract_rtl_transaction_description(search_lines, date_str))

ParseCandidateRtl(search_lines, full_text) ==
    ParseWindowRtl(extract_date_from_line_rtl(full_text), search_lines,
                   StandardAmounts(full_text))

\* parse_transaction_line_rtl(lines, line_index, language)
parse_transaction_line_rtl(lines, line_index) ==
    ParseCandidateRtl(Window(lines, line_index, SearchLinesAfter),
                      JoinLines(Window(lines, line_index, SearchLinesAfter)))

-----------------------------------------------------------------------------
(* The layout classifier: extract_header_from_second_page.                 *)

\* The Arabic presentation-form "transaction date" marker of lines 421, 423.
TransactionDateMarker == <<"AR_TARIKH", " ", "AR_ALAMALIYA">>

\* extract_header_from_second_page(text_pages).  kind is "None" for fewer
\* than 2 pages, "UnboundLocalError" when the second page has fewer than 3
\* lines (the return statement reads two names only the 3-line branch
\* binds), and "dict" otherwise.
extract_header_from_second_page(pages) ==
    IF Len(pages) < 2
    THEN [kind |-> "None", is_LTR |-> FALSE, different_amount_format |-> FALSE]
    ELSE LET lines == pages[2]
         IN  IF Len(lines) >= 3
             THEN LET line_3 == Strip(lines[3])
                  IN  [kind |-> "dict",
                       is_LTR |-> \/ IsSubstr(<<"Date">>, line_3)
                                  \/ IsSubstr(TransactionDateMarker, line_3),
                       different_amount_format |->
                           IsSubstr(TransactionDateMarker, line_3)]
             ELSE [kind |-> "UnboundLocalError",
                   is_LTR |-> FALSE, different_amount_format |-> FALSE]

-----------------------------------------------------------------------------
(* The segmenters, one loop iteration (one line of one page) at a time.    *)

\* abs(a - b) < 0.01, in thousandths.
DedupTolerance == 10

Abs(x) == IF x < 0 THEN -x ELSE x

\* The outcomes of abs(float(a) - float(b)) < 0.01.  The code compares
\* binary floats: a difference of exactly 0.01 between two decimal amounts
\* is computed just below or just above 0.01, depending on the amounts
\* (0.06 - 0.05 < 0.01 but 1.01 - 1.00 > 0.01), so both outcomes are kept.
BalanceCloseOutcomes(a, b) ==
    IF Abs(a - b) < DedupTolerance THEN {TRUE}
    ELSE IF Abs(a - b) = DedupTolerance THEN {TRUE, FALSE}
    ELSE {FALSE}

\* IsDuplicate asking for equal balances.
IsDuplicateEqualBalance(txns, transaction, close) ==
    /\ Len(txns) > 0
    /\ txns[Len(txns)].date = transaction.date
    /\ txns[Len(txns)].description = transaction.description
    /\ txns[Len(txns)].balance = transaction.balance

\* The duplicate check against the last appended transaction.
IsDuplicate(txns, transaction, close) ==
    /\ Len(txns) > 0
    /\ txns[Len(txns)].date = transaction.date
    /\ txns[Len(txns)].description = transaction.description
    /\ close

\* What one candidate does to (transactions, last_valid_date): appended
\* unless it is a duplicate.
Accept(txns, last, transaction, current_date, close) ==
    IF IsDuplicate(txns, transaction, close)
    THEN [transactions |-> txns, last_valid_date |-> last]
    ELSE [transactions |-> Append(txns, transaction),
          last_valid_date |-> current_date]

Unchanged(txns, last) == [transactions |-> txns, last_valid_date |-> last]

\* AcceptParsed taking the date of a candidate the parser refused.
AcceptParsedDating(txns, last, parsed, current_date, close) ==
    IF parsed = <<>> THEN [transactions |-> txns, last_valid_date |-> current_date]
    ELSE Accept(txns, last, parsed[1], current_date, close)

\* A candidate the parser returned is appended unless it is a duplicate.
AcceptParsed(txns, last, parsed, current_date, close) ==
    IF parsed = <<>> THEN Unchanged(txns, last)
    ELSE Accept(txns, last, parsed[1], current_date, close)

\* extract_transactions' inner loop without the date order check.
LtrUnordered(lines, i, fmt, txns, last, close, current_date) ==
    IF current_date = None THEN Unchanged(txns, last)
    ELSE IF ~detect_amounts_in_text(JoinLines(Window(lines, i, SearchLinesAfter)))
    THEN Unchanged(txns, last)
    ELSE AcceptParsed(txns, last, parse_transaction_line(lines, i, fmt),
                      current_date, close)

\* extract_transactions' inner loop from the date order check on.
LtrOrdered(lines, i, fmt, txns, last, close, current_date) ==
    IF current_date = None THEN Unchanged(txns, last)
    ELSE IF last # None /\ DateBefore(current_date, last) THEN Unchanged(txns, last)
    ELSE IF ~detect_amounts_in_text(JoinLines(Window(lines, i, SearchLinesAfter)))
    THEN Unchanged(txns, last)
    ELSE AcceptParsed(txns, last, parse_transaction_line(lines, i, fmt),
                      current_date, close)

LtrDated(lines, i, fmt, txns, last, close, date_match) ==
    IF date_match = None THEN Unchanged(txns, last)
    ELSE LtrOrdered(lines, i, fmt, txns, last, close, date_to_datetime(date_match))

\* The body of extract_transactions' inner loop for line i (0-based) of
\* lines.
LtrLine(lines, i, fmt, txns, last, close) ==
    IF Len(Strip(lines[i + 1])) = 0 THEN Unchanged(txns, last)
    ELSE LtrDated(lines, i, fmt, txns, last, close,
                  extract_date_from_text(<<Strip(lines[i + 1])>>))

\* The lines the RTL segmenter searches for the date, counted from the
\* first amount's line.
RtlDateSearchLines == 50

\* The amounts of the line i and of the non-blank lines among the next two.
RtlAmounts(lines, i) ==
    LET RECURSIVE Collect(_, _)
        Collect(j, amounts) ==
            IF j < Len(lines) /\ j < i + 3 /\ Len(amounts) < 3
            THEN LET next_line == Strip(lines[j + 1])
                     amount == extract_single_amount_rtl(next_line)
                 IN  IF Len(next_line) > 0 /\ amount.ok
                     THEN Collect(j + 1, Append(amounts, amount.v))
                     ELSE Collect(j + 1, amounts)
            ELSE amounts
    IN  Collect(i + 1, <<extract_single_amount_rtl(Strip(lines[i + 1])).v>>)

\* The first date of the lines i .. min(i + 50, len(lines)) - 1.
DateOfLine(lines, k) ==
    IF k = 0 THEN None ELSE extract_date_from_line_rtl(Strip(lines[k]))

RtlDateMatch(lines, i) ==
    DateOfLine(lines,
        FirstIndex({k \in (i + 1)..Min(i + RtlDateSearchLines, Len(lines)) :
                       /\ Len(Strip(lines[k])) > 0
                       /\ extract_date_from_line_rtl(Strip(lines[k])) # None}))

\* extract_rtl_transactions' inner loop from the date on.
RtlOrdered(lines, i, txns, last, close, current_date) ==
    IF current_date = None THEN Unchanged(txns, last)
    ELSE IF ~detect_amounts_in_text(JoinLines(Window(lines, i, SearchLinesAfter)))
    THEN Unchanged(txns, last)
    ELSE AcceptParsed(txns, last, parse_transaction_line_rtl(lines, i),
                      current_date, close)

RtlDated(lines, i, txns, last, close, date_match) ==
    IF date_match = None THEN Unchanged(txns, last)
    ELSE RtlOrdered(lines, i, txns, last, close, date_to_datetime(date_match))

\* The body of extract_rtl_transactions' inner loop for line i of lines.
RtlLine(lines, i, txns, last, close) ==
    IF Len(Strip(lines[i + 1])) = 0 THEN Unchanged(txns, last)
    ELSE IF ~extract_single_amount_rtl(Strip(lines[i + 1])).ok THEN Unchanged(txns, last)
    ELSE IF Len(RtlAmounts(lines, i)) # 3 THEN Unchanged(txns, last)
    ELSE RtlDated(lines, i, txns, last, close, RtlDateMatch(lines, i))

-----------------------------------------------------------------------------
(* Quotients.  The code's float divisions are kept as exact fractions      *)
(* [num, den] in lowest terms with den > 0; den = 0 stands for a division  *)
(* by zero (ZeroDivisionError).                                            *)

RECURSIVE GCD(_, _)
GCD(a, b) == IF b = 0 THEN a ELSE GCD(b, a % b)

Zero == [num |-> 0, den |-> 1]

\* n / d
Quotient(n, d) ==
    IF d = 0 THEN [num |-> n, den |-> 0]
    ELSE IF n = 0 THEN Zero
    ELSE LET g == GCD(Abs(n), Abs(d))
             sign == IF d < 0 THEN -1 ELSE 1
         IN  [num |-> (sign * n) \div g, den |-> (sign * d) \div g]

RaisedZeroDivision(q) == q.den = 0

-----------------------------------------------------------------------------
(* analyze_monthly_transactions                                            *)

\* The marker of an international transaction.
InternationalMarker == <<"IPS">>

\* date_obj.strftime('%Y-%m'), as <<year, month>>
YearMonth(date_obj) == <<date_obj[1], date_obj[2]>>

\* The first loop: the transactions whose date converts, and the months in
\* the order of their first transaction (the dict's insertion order).
Dated(txns) == SelectSeq(txns, LAMBDA t : date_to_datetime(t.date) # None)

RECURSIVE MonthKeys(_, _)
MonthKeys(txns, seen) ==
    IF Len(txns) = 0 THEN seen
    ELSE LET ym == YearMonth(date_to_datetime(txns[1].date))
         IN  MonthKeys(Tail(txns),
                       IF \E k \in 1..Len(seen) : seen[k] = ym
                       THEN seen ELSE Append(seen, ym))

SumOf(txns, Field(_)) ==
    LET partial[k \in 0..Len(txns)] ==
            IF k = 0 THEN 0 ELSE partial[k - 1] + Field(txns[k])
    IN  partial[Len(txns)]

\* list.sort(key = date): stable insertion by date.
RECURSIVE InsertByDate(_, _)
InsertByDate(sorted, t) ==
    IF Len(sorted) = 0 THEN <<t>>
    ELSE IF DateBefore(date_to_datetime(t.date),
                       date_to_datetime(sorted[Len(sorted)].date))
         THEN Append(InsertByDate(SubSeq(sorted, 1, Len(sorted) - 1), t),
                     sorted[Len(sorted)])
         ELSE Append(sorted, t)

RECURSIVE SortByDate(_)
SortByDate(txns) ==
    IF Len(txns) = 0 THEN <<>>
    ELSE InsertByDate(SortByDate(SubSeq(txns, 1, Len(txns) - 1)), txns[Len(txns)])

MinBalance(txns) ==
    CHOOSE b \in {txns[k].balance : k \in 1..Len(txns)} :
        \A k \in 1..Len(txns) : b <= txns[k].balance

\* MonthFluctuation dividing whatever the opening balance.
MonthFluctuationUnguarded(net_change, opening_balance) ==
    Quotient(net_change * 100, opening_balance)

\* The fluctuation of a month: net_change / opening_balance * 100 when the
\* opening balance is not 0, else 0.
MonthFluctuation(net_change, opening_balance) ==
    IF opening_balance # 0
    THEN Quotient(net_change * 100, opening_balance)
    ELSE Zero

\* International taking every transaction as marked.
InternationalUnmarked(txns) == txns

\* The transactions with the international marker in the description.
International(txns) ==
    SelectSeq(txns, LAMBDA t : IsSubstr(InternationalMarker, t.description))

\* The balance before the month's first transaction.
OpeningBalance(first_transaction) ==
    first_transaction.balance - first_transaction.credit + first_transaction.debit

\* A month's record: the first loop's totals and the second loop's balances.
MonthRecord(ym, sorted, marked, total_debit, total_credit, net_change) ==
    [year_month |-> ym,
     count |-> Len(sorted),
     total_debit |-> total_debit,
     total_credit |-> total_credit,
     opening_balance |-> OpeningBalance(sorted[1]),
     closing_balance |-> sorted[Len(sorted)].balance,
     minimum_balance |-> MinBalance(sorted),
     transactions |-> sorted,
     international_inward_count |->
         Len(SelectSeq(marked, LAMBDA t : t.credit > 0)),
     international_outward_count |->
         Len(SelectSeq(marked, LAMBDA t : t.debit > 0)),
     international_inward_total |->
         SumOf(SelectSeq(marked, LAMBDA t : t.credit > 0), LAMBDA t : t.credit),
     international_outward_total |->
         SumOf(SelectSeq(marked, LAMBDA t : t.debit > 0), LAMBDA t : t.debit),
     net_change |-> net_change,
     fluctuation |-> MonthFluctuation(net_change, OpeningBalance(sorted[1]))]

\* MonthTotals without the sort of the month's transactions.
MonthTotalsUnsorted(ym, in_month, total_debit, total_credit) ==
    MonthRecord(ym, in_month, International(in_month),
                total_debit, total_credit, total_credit - Abs(total_debit))

MonthTotals(ym, in_month, total_debit, total_credit) ==
    MonthRecord(ym, SortByDate(in_month), International(in_month),
                total_debit, total_credit, total_credit - Abs(total_debit))

\* The statistics of one month from its transactions, in extraction order.
MonthStats(ym, in_month) ==
    MonthTotals(ym, in_month, SumOf(in_month, LAMBDA t : t.debit),
                SumOf(in_month, LAMBDA t : t.credit))

MonthsIn(dated, keys) ==
    [k \in 1..Len(keys) |->
        MonthStats(keys[k],
                   SelectSeq(dated, LAMBDA t :
                       YearMonth(date_to_datetime(t.date)) = keys[k]))]

MonthsOf(dated) == MonthsIn(dated, MonthKeys(dated, <<>>))

\* analyze_monthly_transactions converting the dates that are tuples only.
AnalyzeMonthlyTupleDates(txns) ==
    MonthsOf(SelectSeq(txns, LAMBDA t : IsTupleDate(t.date)))

\* analyze_monthly_transactions(transactions): the months' records in the
\* order of the dict.
analyze_monthly_transactions(txns) == MonthsOf(Dated(txns))

\* A division of the second loop raised: the exception leaves
\* analyze_monthly_transactions (nothing there catches it).
AnalysisRaised(months) ==
    \E k \in 1..Len(months) : RaisedZeroDivision(months[k].fluctuation)

-----------------------------------------------------------------------------
(* calculate_analytics                                                     *)

IntSum(xs) ==
    LET partial[k \in 0..Len(xs)] ==
            IF k = 0 THEN 0 ELSE partial[k - 1] + xs[k]
    IN  partial[Len(xs)]

\* sum(values) / len(values) of floats that are themselves quotients: kept
\* as the values averaged; no values stands for the code's 0.
MeanOf(values) == [mean_of |-> values]

\* stdev / mean of the months' net changes: kept as the net changes it is
\* computed from; none stands for the code's 0 (fewer than two months, or
\* a mean of 0).
StabilityOf(net_changes) == [stdev_over_mean_of |-> net_changes]

CashFlowStability(net_changes) ==
    IF Len(net_changes) > 1 /\ IntSum(net_changes) # 0
    THEN StabilityOf(net_changes)
    ELSE StabilityOf(<<>>)

\* calculate_analytics(monthly_analysis): a record whose DOMAIN is the set
\* of the dict's keys.
calculate_analytics(months) ==
    IF Len(months) = 0
    THEN [average_fluctuation |-> MeanOf(<<>>),
          net_cash_flow_stability |-> StabilityOf(<<>>),
          total_foreign_transactions |-> 0,
          total_foreign_amount |-> 0,
          overdraft_frequency |-> 0,
          overdraft_total_days |-> 0]
    ELSE LET n == Len(months)
             inflows == [k \in 1..n |-> months[k].total_credit]
             outflows == [k \in 1..n |-> Abs(months[k].total_debit)]
         IN  [average_fluctuation |->
                  MeanOf([k \in 1..n |-> months[k].fluctuation]),
              net_cash_flow_stability |->
                  CashFlowStability([k \in 1..n |-> months[k].net_change]),
              total_foreign_transactions |->
                  IntSum([k \in 1..n |-> months[k].international_inward_count]),
              total_foreign_amount |->
                  IntSum([k \in 1..n |-> months[k].international_inward_total]),
              sum_total_inflow |-> IntSum(inflows),
              sum_total_outflow |-> IntSum(outflows),
              avg_total_inflow |-> Quotient(IntSum(inflows), n),
              avg_total_outflow |-> Quotient(IntSum(outflows), n),
              overdraft_frequency |-> 0,
              overdraft_total_days |-> 0]

-----------------------------------------------------------------------------
(* The first page: detect_language and extract_account_info.  The text of  *)
(* a page is its lines joined by the symbol "\n".                          *)

NewLine == "\n"

RECURSIVE PageText(_)
PageText(lines) ==
    IF Len(lines) = 0 THEN <<>>
    ELSE IF Len(lines) = 1 THEN lines[1]
    ELSE lines[1] \o <<NewLine>> \o PageText(Tail(lines))

NonLetters == {DigitChars[k] : k \in 1..Len(DigitChars)}
                  \cup {".", ",", "/", "-", ":", " ", NewLine}

\* The words of the marker are written in presentation forms (U+FE70 to
\* U+FEFF): neither [\u0600-\u06FF] nor [a-zA-Z] counts their characters.
PresentationWords == {"AR_TARIKH", "AR_ALAMALIYA"}

ArabicWords ==
    {"AR_RIYAL", "AR_R", "AR_S", "AR_ISM",
     "AR_RAQM", "AR_HISAB", "AR_RASEED", "AR_KHILAL", "AR_MADINA", "AR_AIBAN",
     "AR_ALAMEEL", "AR_ALHISAB", "AR_ALRASEED", "AR_ALFATRA", "AR_ALMAMEEL",
     "AR_ALMADINA", "AR_ALAIBAN", "AR_ALIQFAL", "AR_ALMALIYA", "AR_ALIQFALI",
     "AR_ALIFTITAHI"}

\* detect_language(text)
detect_language(text) ==
    LET arabic_chars == IntSum([k \in 1..Len(text) |->
                            IF text[k] \in ArabicWords THEN WordLen(text[k]) ELSE 0])
        english_chars == IntSum([k \in 1..Len(text) |->
                            IF text[k] \in ArabicWords \cup PresentationWords \cup NonLetters
                            THEN 0 ELSE WordLen(text[k])])
    IN  IF arabic_chars > english_chars THEN "arabic" ELSE "english"

Fields == <<"customer_name", "city", "account_number", "iban_number",
            "opening_balance", "closing_balance", "financial_period">>

english_patterns(field_name) ==
    CASE field_name = "customer_name" ->
             << <<"Customer", " ", "Name">>, <<"Account", " ", "Holder">> >>
      [] field_name = "city" -> << <<"City">> >>
      [] field_name = "account_number" -> << <<"Account", " ", "Number">> >>
      [] field_name = "iban_number" -> << <<"IBAN", " ", "Number">>, <<"IBAN">> >>
      [] field_name = "opening_balance" -> << <<"Opening", " ", "Balance">> >>
      [] field_name = "closing_balance" -> << <<"Closing", " ", "Balance">> >>
      [] field_name = "financial_period" ->
             << <<"On", " ", "The", " ", "Period">>, <<"Period">> >>

arabic_patterns(field_name) ==
    CASE field_name = "customer_name" ->
             << <<"AR_ISM", " ", "AR_ALAMEEL">>, <<"AR_ISM", " ", "AR_ALMAMEEL">> >>
      [] field_name = "city" -> << <<"AR_ALMADINA">>, <<"AR_MADINA">> >>
      [] field_name = "account_number" ->
             << <<"AR_RAQM", " ", "AR_ALHISAB">>, <<"AR_RAQM", " ", "AR_HISAB">> >>
      [] field_name = "iban_number" ->
             << <<"AR_RAQM", " ", "AR_ALAIBAN">>, <<"AR_RAQM", " ", "AR_AIBAN">>,
                <<"IBAN">> >>
      [] field_name = "opening_balance" ->
             << <<"AR_RASEED", " ", "AR_ALHISAB", " ", "AR_ALIFTITAHI">>,
                <<"AR_ALRASEED", " ", "AR_ALIFTITAHI">> >>
      [] field_name = "closing_balance" ->
             << <<"AR_RASEED", " ", "AR_ALIQFAL">>, <<"AR_ALRASEED", " ", "AR_ALIQFALI">> >>
      [] field_name = "financial_period" ->
             << <<"AR_KHILAL", " ", "AR_ALFATRA">>, <<"AR_ALFATRA", " ", "AR_ALMALIYA">> >>

\* One match of  pattern\s*[:\s]*([^\n\r]+)  starting at p: the greedy skip
\* gives back symbols until one that is not a line break can start the group.
FieldMatchAt(text, pattern, p) ==
    IF ~ MatchesAt(text, pattern, p) THEN [ok |-> FALSE, value |-> <<>>, end |-> p]
    ELSE LET q == p + Len(pattern)
             stop == FirstIndex({k \in q..Len(text) : text[k] \notin {":", " ", NewLine}})
             e == IF stop = 0 THEN Len(text) + 1 ELSE stop
             starts == {k \in q..e : k <= Len(text) /\ text[k] # NewLine}
         IN  IF starts = {} THEN [ok |-> FALSE, value |-> <<>>, end |-> p]
             ELSE LET start == CHOOSE k \in starts : \A j \in starts : j <= k
                      eol == FirstIndex({k \in start..Len(text) : text[k] = NewLine})
                      last == IF eol = 0 THEN Len(text) ELSE eol - 1
                  IN  [ok |-> TRUE, value |-> SubSeq(text, start, last), end |-> last + 1]

\* re.findall: the matches from p on, left to right, without overlap.
RECURSIVE FieldMatches(_, _, _)
FieldMatches(text, pattern, p) ==
    LET at == FirstIndex({k \in p..Len(text) : FieldMatchAt(text, pattern, k).ok})
    IN  IF at = 0 THEN <<>>
        ELSE LET m == FieldMatchAt(text, pattern, at)
             IN  <<m.value>> \o FieldMatches(text, pattern, m.end)

\* value.strip() and re.sub(r'\s+', ' ', value)
CleanValue(value) ==
    LET v == Strip(value)
        kept[k \in 0..Len(v)] ==
            IF k = 0 THEN <<>>
            ELSE IF k > 1 /\ v[k] = " " /\ v[k - 1] = " " THEN kept[k - 1]
            ELSE Append(kept[k - 1], v[k])
    IN  kept[Len(v)]

\* A field's value: None, a string or a float.
NoValue == [kind |-> "None", s |-> <<>>, v |-> 0]
StrValue(s) == [kind |-> "str", s |-> s, v |-> 0]
FloatValue(v) == [kind |-> "float", s |-> <<>>, v |-> v]

Patterns(field_name, lang) ==
    IF lang = "arabic" THEN arabic_patterns(field_name) ELSE english_patterns(field_name)

\* extract_field_value(text, field_name, language): the first match of the
\* first pattern that matches at all.
RECURSIVE FieldValueFrom(_, _, _, _)
FieldValueFrom(text, patterns, k, second) ==
    IF k > Len(patterns) THEN NoValue
    ELSE LET matches == FieldMatches(text, patterns[k], 1)
         IN  IF Len(matches) = 0 THEN FieldValueFrom(text, patterns, k + 1, second)
             ELSE IF second /\ Len(matches) >= 2 THEN StrValue(CleanValue(matches[2]))
             ELSE StrValue(CleanValue(matches[1]))

extract_field_value(text, field_name, lang) ==
    FieldValueFrom(text, Patterns(field_name, lang), 1, FALSE)

\* extract_field_value_different taking the first match like
\* extract_field_value.
ExtractFieldValueFirst(text, field_name, lang) ==
    FieldValueFrom(text, Patterns(field_name, lang), 1, FALSE)

\* extract_field_value_different: the second match when there are two.
extract_field_value_different(text, field_name, lang) ==
    FieldValueFrom(text, Patterns(field_name, lang), 1, TRUE)

CleanChars == {DigitChars[k] : k \in 1..Len(DigitChars)} \cup {".", ",", "-"}

\* clean_amount(amount_str)
clean_amount(amount_str) ==
    LET cleaned == SelectSeq(amount_str, LAMBDA c : c \in CleanChars)
        parsed == FloatParse(Replace(cleaned, <<",">>))
    IN  IF Len(amount_str) = 0 \/ Len(cleaned) = 0 \/ ~ parsed.ok
        THEN NoValue ELSE FloatValue(parsed.v)

\* A field that is a non-empty string is cleaned as an amount.
CleanBalance(value) ==
    IF value.kind = "str" /\ Len(value.s) > 0 THEN clean_amount(value.s) ELSE value

\* extract_account_info(text, language, different_amount_format)
extract_account_info(text, lang, fmt) ==
    LET info == [f \in {Fields[k] : k \in 1..Len(Fields)} |->
                    IF fmt THEN extract_field_value_different(text, f, lang)
                    ELSE extract_field_value(text, f, lang)]
    IN  [info EXCEPT !["opening_balance"] = CleanBalance(@),
                     !["closing_balance"] = CleanBalance(@)]

-----------------------------------------------------------------------------
(* Unit calls: a pure function of the extractor applied to an argument     *)
(* drawn from a bounded set.  The pipeline's variables stay idle.          *)

PipelineIdle ==
    /\ text_pages = <<>>
    /\ pc = "idle"
    /\ is_LTR = FALSE
    /\ different_amount_format = FALSE
    /\ language = "english"
    /\ account_info = <<>>
    /\ transactions = <<>>
    /\ last_valid_date = None
    /\ page_idx = 0
    /\ line_idx = 0
    /\ monthly_analysis = <<>>
    /\ result = [kind |-> "none"]

UnitIdle ==
    /\ callee = "none"
    /\ args = <<>>
    /\ ret = None
    /\ returned = FALSE

\* Lines for the date recognizer: three numeric parts around one separator,
\* alone on the line or followed or preceded by other text, and lines with
\* fewer parts.
YearLikeParts ==
    {Digits(1899, 4), Digits(1900, 4), Digits(2024, 4), Digits(2100, 4),
     Digits(2101, 4), Digits(0, 2), Digits(1, 2), Digits(17, 2),
     Digits(31, 2), Digits(32, 2)}

MonthLikeParts ==
    {Digits(0, 2), Digits(1, 2), Digits(6, 2), Digits(12, 2), Digits(13, 2)}

DateLineInputs ==
    { pre \o a \o <<sep>> \o b \o <<sep>> \o c \o post :
        a \in YearLikeParts, b \in MonthLikeParts, c \in YearLikeParts,
        sep \in {"/", "-"},
        pre \in {<<>>},
        post \in {<<>>, <<" ", "description">>, <<" ">>} }
    \cup { <<"Ref", " ">> \o Digits(2024, 4) \o <<"/", "0", "6", "/", "1", "7">>,
           Digits(2024, 4) \o <<"/", "0", "6">>,
           Digits(2024, 4) \o <<"/", "0", "6", "/", "1", "7", "/", "x">>,
           <<" ">> \o Digits(2024, 4) \o <<"-", "0", "6", "-", "1", "7">>,
           <<"description">>, <<>> }

InitDate ==
    /\ PipelineIdle
    /\ callee = "extract_date_from_text"
    /\ args \in {<<l>> : l \in DateLineInputs}
    /\ ret = None
    /\ returned = FALSE
    /\ BackendIdle

CallExtractDate ==
    /\ callee = "extract_date_from_text"
    /\ ~returned
    /\ ret' = extract_date_from_text(args)
    /\ returned' = TRUE
    /\ UNCHANGED <<callee, args>>
    /\ UNCHANGED pipeline_vars
    /\ UNCHANGED backend_vars

NextDate == CallExtractDate

SpecDate == InitDate /\ [][NextDate]_vars

-----------------------------------------------------------------------------
(* process_bank_statement, one step at a time.  pc is the position:        *)
(* "start" (text_pages just extracted), "header", "account", "scan" (in    *)
(* the segmenter's loops, at line line_idx of page page_idx), "analyze",   *)
(* "compile", and the two ends "returned" and "raised".                    *)

Returned(value) == [kind |-> "dict", value |-> value]
Raised(exception) == [kind |-> "raise", exception |-> exception]

ExtractionError == "Could not extract text from PDF"

\* CheckPages going on whatever the pages.
CheckPagesAnyPages ==
    /\ pc = "start"
    /\ pc' = "header"
    /\ UNCHANGED result
    /\ UNCHANGED <<text_pages, is_LTR, different_amount_format, language,
                   account_info, transactions, last_valid_date, page_idx,
                   line_idx, monthly_analysis>>
    /\ UNCHANGED unit_vars
    /\ UNCHANGED backend_vars

\* if not text_pages: return {"error": ...}
CheckPages ==
    /\ pc = "start"
    /\ IF Len(text_pages) = 0
       THEN /\ result' = Returned([error |-> ExtractionError])
            /\ pc' = "returned"
       ELSE /\ pc' = "header"
            /\ UNCHANGED result
    /\ UNCHANGED <<text_pages, is_LTR, different_amount_format, language,
                   account_info, transactions, last_valid_date, page_idx,
                   line_idx, monthly_analysis>>
    /\ UNCHANGED unit_vars
    /\ UNCHANGED backend_vars

\* header_info = extract_header_from_second_page(text_pages) and the two
\* subscripts header_info["is_LTR"], header_info["different_amount_format"]:
\* subscripting None is a TypeError.
HeaderRead(header_info) ==
    IF header_info.kind = "dict"
    THEN /\ is_LTR' = header_info.is_LTR
         /\ different_amount_format' = header_info.different_amount_format
         /\ pc' = "account"
         /\ UNCHANGED result
    ELSE /\ result' = Raised(IF header_info.kind = "None"
                              THEN "TypeError" ELSE "UnboundLocalError")
         /\ pc' = "raised"
         /\ UNCHANGED <<is_LTR, different_amount_format>>

ExtractHeader ==
    /\ pc = "header"
    /\ HeaderRead(extract_header_from_second_page(text_pages))
    /\ UNCHANGED <<text_pages, language, account_info, transactions,
                   last_valid_date, page_idx, line_idx, monthly_analysis>>
    /\ UNCHANGED unit_vars
    /\ UNCHANGED backend_vars

\* ExtractAccountInfo entering the loops with the date left by an earlier scan.
ExtractAccountInfoKeepingDate ==
    /\ pc = "account"
    /\ language' = detect_language(PageText(text_pages[1]))
    /\ account_info' = extract_account_info(PageText(text_pages[1]),
                                            detect_language(PageText(text_pages[1])),
                                            different_amount_format)
    /\ transactions' = <<>>
    /\ page_idx' = 0
    /\ line_idx' = 0
    /\ pc' = "scan"
    /\ UNCHANGED <<text_pages, is_LTR, different_amount_format,
                   monthly_analysis, result, last_valid_date>>
    /\ UNCHANGED unit_vars
    /\ UNCHANGED backend_vars

\* language and account_info from the first page; the segmenter's loops
\* start.
ExtractAccountInfo ==
    /\ pc = "account"
    /\ language' = detect_language(PageText(text_pages[1]))
    /\ account_info' = extract_account_info(PageText(text_pages[1]),
                                            detect_language(PageText(text_pages[1])),
                                            different_amount_format)
    /\ transactions' = <<>>
    /\ last_valid_date' = None
    /\ page_idx' = 0
    /\ line_idx' = 0
    /\ pc' = "scan"
    /\ UNCHANGED <<text_pages, is_LTR, different_amount_format,
                   monthly_analysis, result>>
    /\ UNCHANGED unit_vars
    /\ UNCHANGED backend_vars

\* The outcomes of the duplicate check's balance comparison for a candidate.
CloseChoices(txns, parsed) ==
    IF Len(txns) = 0 \/ Len(parsed) = 0 THEN {FALSE}
    ELSE BalanceCloseOutcomes(txns[Len(txns)].balance, parsed[1].balance)

\* The loops' advance: the next line of the page, else the first line of
\* the next page, else the segmenter returns.
Advance ==
    IF line_idx + 1 < Len(text_pages[page_idx + 1])
    THEN /\ line_idx' = line_idx + 1
         /\ UNCHANGED <<page_idx, pc>>
    ELSE /\ line_idx' = 0
         /\ page_idx' = page_idx + 1
         /\ pc' = IF page_idx + 1 < Len(text_pages) THEN "scan" ELSE "analyze"

\* The outcomes of extract_transactions' inner loop for a line.
LtrLineOutcomes(lines, i, fmt, txns, last) ==
    {LtrLine(lines, i, fmt, txns, last, close) :
        close \in CloseChoices(txns, parse_transaction_line(lines, i, fmt))}

\* One iteration of extract_transactions' inner loop.
ScanLineLTR ==
    /\ pc = "scan"
    /\ is_LTR
    /\ \E out \in LtrLineOutcomes(text_pages[page_idx + 1], line_idx,
                                   different_amount_format, transactions,
                                   last_valid_date) :
           /\ transactions' = out.transactions
           /\ last_valid_date' = out.last_valid_date
    /\ Advance
    /\ UNCHANGED <<text_pages, is_LTR, different_amount_format, language,
                   account_info, monthly_analysis, result>>
    /\ UNCHANGED unit_vars
    /\ UNCHANGED backend_vars

\* The outcomes of extract_rtl_transactions' inner loop for a line.
RtlLineOutcomes(lines, i, txns, last) ==
    {RtlLine(lines, i, txns, last, close) :
        close \in CloseChoices(txns, parse_transaction_line_rtl(lines, i))}

\* One iteration of extract_rtl_transactions' inner loop.
ScanLineRTL ==
    /\ pc = "scan"
    /\ ~is_LTR
    /\ \E out \in RtlLineOutcomes(text_pages[page_idx + 1], line_idx,
                                   transactions, last_valid_date) :
           /\ transactions' = out.transactions
           /\ last_valid_date' = out.last_valid_date
    /\ Advance
    /\ UNCHANGED <<text_pages, is_LTR, different_amount_format, language,
                   account_info, monthly_analysis, result>>
    /\ UNCHANGED unit_vars
    /\ UNCHANGED backend_vars

\* monthly_analysis = analyze_monthly_transactions(transactions); an
\* exception raised there leaves process_bank_statement.
Analyzed(months) ==
    IF AnalysisRaised(months)
    THEN /\ result' = Raised("ZeroDivisionError")
         /\ pc' = "raised"
         /\ UNCHANGED monthly_analysis
    ELSE /\ monthly_analysis' = months
         /\ pc' = "compile"
         /\ UNCHANGED result

AnalyzeMonthly ==
    /\ pc = "analyze"
    /\ Analyzed(analyze_monthly_transactions(transactions))
    /\ UNCHANGED <<text_pages, is_LTR, different_amount_format, language,
                   account_info, transactions, last_valid_date, page_idx,
                   line_idx>>
    /\ UNCHANGED unit_vars
    /\ UNCHANGED backend_vars

\* analytics and the results dict.
Compile ==
    /\ pc = "compile"
    /\ result' = Returned([account_info |-> account_info,
                           total_transactions |-> Len(transactions),
                           transactions |-> transactions,
                           monthly_analysis |-> monthly_analysis,
                           pages_processed |-> Len(text_pages),
                           analytics |-> calculate_analytics(monthly_analysis)])
    /\ pc' = "returned"
    /\ UNCHANGED <<text_pages, is_LTR, different_amount_format, language,
                   account_info, transactions, last_valid_date, page_idx,
                   line_idx, monthly_analysis>>
    /\ UNCHANGED unit_vars
    /\ UNCHANGED backend_vars

-----------------------------------------------------------------------------
(* The documents process_bank_statement is run on: the page texts          *)
(* extract_text_from_pdf can return, each page as its lines.  Page 2       *)
(* starts with three lines, the third being the table's header, and goes   *)
(* on with blocks of lines, one block for one row of the statement.        *)

MaxBlocks == 2

DateText(y, m, d) ==
    Digits(y, 4) \o <<"/">> \o Digits(m, 2) \o <<"/">> \o Digits(d, 2)

\* "units.frac", frac a string of digits.
Money(units, frac) == NatStr(units) \o <<".">> \o frac

Sar(money) == money \o <<" ", "SAR">>

c00 == <<"0", "0">>

\* The cells of a row on one line, separated by blanks.
Row(cells) == JoinLines(cells)

\* Rows of the left-to-right layout with "SAR" amounts: a date line, the
\* line of the amounts (debit, credit, balance) and the narrative.
LtrBlock(date_line, debit, credit, balance, narrative) ==
    <<date_line, Row(<<Sar(debit), Sar(credit), Sar(balance)>>), narrative>>

LtrDebit ==
    LtrBlock(DateText(2024, 6, 17), Money(100, c00), Money(0, c00),
             Money(500, c00), <<"Transfer">>)

\* neither a debit nor a credit
LtrNoMovement ==
    LtrBlock(DateText(2024, 6, 18), Money(0, c00), Money(0, c00),
             Money(500, c00), <<"Transfer">>)

\* an earlier month, a credit from abroad
LtrCreditMay ==
    LtrBlock(DateText(2024, 5, 10), Money(0, c00), Money(50, c00),
             Money(550, c00), <<"IPS", " ", "Transfer">>)

\* the date followed by text on its line
LtrDateWithText ==
    LtrBlock(DateText(2024, 6, 17) \o <<" ", "description">>, Money(100, c00),
             Money(0, c00), Money(500, c00), <<"Transfer">>)

\* the balance before the row is 0
LtrFromZero ==
    LtrBlock(DateText(2024, 7, 1), Money(0, c00), Money(100, c00),
             Money(100, c00), <<"Transfer">>)

\* two amounts, a debit and a balance; the balances of the three rows are
\* 0.004 and 0.01 apart
LtrNear(balance_frac) ==
    <<DateText(2024, 6, 17),
      Row(<<Sar(Money(100, <<"5">>)), Sar(Money(500, balance_frac))>>),
      <<"Transfer">> >>

LtrNear005 == LtrNear(<<"0", "0", "5">>)
LtrNear001 == LtrNear(<<"0", "0", "1">>)
LtrNear015 == LtrNear(<<"0", "1", "5">>)

\* no such day
LtrBadDate ==
    LtrBlock(DateText(2024, 2, 30), Money(100, c00), Money(0, c00),
             Money(500, c00), <<"Transfer">>)

\* a date with nothing after it
LtrDateOnly == <<DateText(2024, 6, 19)>>

LtrBlocks ==
    {LtrDebit, LtrNoMovement, LtrCreditMay, LtrDateWithText, LtrFromZero,
     LtrNear005, LtrBadDate, LtrDateOnly}

\* Rows of the right-to-left layout: balance, credit and debit on a line
\* each, then the date with the narrative.
RtlBlock(balance, credit, debit, date_line) ==
    <<Sar(balance), Sar(credit), Sar(debit), date_line>>

RtlDebit ==
    RtlBlock(Money(500, c00), Money(0, c00), Money(100, c00),
             DateText(2024, 6, 17) \o <<" ", "Transfer">>)

\* balances 0.005 and 0.01 from RtlDebit's
RtlNear005 ==
    RtlBlock(Money(500, <<"0", "0", "5">>), Money(0, c00), Money(100, c00),
             DateText(2024, 6, 17) \o <<" ", "Transfer">>)

RtlNear010 ==
    RtlBlock(Money(500, <<"0", "1">>), Money(0, c00), Money(100, c00),
             DateText(2024, 6, 17) \o <<" ", "Transfer">>)

RtlNoMovement ==
    RtlBlock(Money(500, c00), Money(0, c00), Money(0, c00),
             DateText(2024, 6, 17) \o <<" ", "Transfer">>)

RtlFromZero ==
    RtlBlock(Money(100, c00), Money(100, c00), Money(0, c00),
             DateText(2024, 5, 10) \o <<" ", "IPS", " ", "Transfer">>)

\* no such day
RtlBadDate ==
    RtlBlock(Money(500, c00), Money(0, c00), Money(100, c00),
             DateText(2024, 2, 30) \o <<" ", "Transfer">>)

RtlTwoAmounts ==
    <<Sar(Money(500, c00)), Sar(Money(100, c00)),
      DateText(2024, 6, 17) \o <<" ", "Transfer">> >>

\* two amounts on the first line
RtlTwoOnLine ==
    <<Row(<<Sar(Money(500, c00)), Sar(Money(20, c00))>>), Sar(Money(0, c00)),
      Sar(Money(100, c00)), DateText(2024, 6, 17) \o <<" ", "Transfer">> >>

RtlBlocks ==
    {RtlDebit, RtlNoMovement, RtlFromZero, RtlBadDate, RtlTwoAmounts,
     RtlTwoOnLine}

\* Rows of the alternate amount format: a date line, then the amounts
\* without a currency and the narrative.
AltBlock(date, amounts) == <<date, Row(amounts \o << <<"Transfer">> >>)>>

AltDebit ==
    AltBlock(DateText(2024, 6, 17), << <<"-">> \o Money(20, c00), Money(30, c00)>>)

AltCredit == AltBlock(DateText(2024, 6, 17), <<Money(50, c00), Money(30, c00)>>)

AltNoMovement == AltBlock(DateText(2024, 6, 17), <<Money(0, c00), Money(30, c00)>>)

AltFromZero ==
    AltBlock(DateText(2024, 7, 1), << <<"-">> \o Money(30, c00), Money(30, c00)>>)

AltSingle == AltBlock(DateText(2024, 6, 17), <<Money(30, c00)>>)

AltBlocks == {AltDebit, AltCredit, AltNoMovement, AltFromZero, AltSingle}

\* The header lines: with "Date" (left-to-right), with the transaction
\* date marker (left-to-right, alternate amounts), with neither.
LtrHeader == <<"Date", " ", "description">>
AltHeader == TransactionDateMarker
RtlHeader == <<"Statement">>

RECURSIVE Bodies(_, _)
Bodies(blocks, n) ==
    IF n = 0 THEN {<<>>}
    ELSE Bodies(blocks, n - 1)
         \cup {body \o block : body \in Bodies(blocks, n - 1), block \in blocks}

PlainFirstPage == << <<"Statement">> >>

EnglishFirstPage ==
    << <<"Opening", " ", "Balance", ":", " ", "1", ",", "0", "0", "0", ".", "0", "0",
         " ", "SAR">>,
       <<"Closing", " ", "Balance">>, <<"5", "0", "0", ".", "0", "0">>,
       <<"City", ":", " ">> >>

ArabicFirstPage ==
    << <<"AR_RAQM", " ", "AR_ALHISAB", ":", " ", "1", "2", "3">>,
       <<"AR_RASEED", " ", "AR_ALIQFAL", " ", "1", "2", "-", "3">> >>

FirstPages == {PlainFirstPage, EnglishFirstPage, ArabicFirstPage}

\* The second page: two lines, the header, the rows.
SecondPage(header, body) == << <<"Statement">>, <<>>, header>> \o body

\* Pages 2 and 3 of a layout: up to MaxBlocks rows on page 2, and page 3,
\* if there is one, with one more row out of more.
Layout(header, blocks, more) ==
    { <<SecondPage(header, body)>> \o rest :
        body \in Bodies(blocks, MaxBlocks),
        rest \in {<<>>} \cup {<<block>> : block \in more} }

Layouts ==
    Layout(LtrHeader, LtrBlocks, {LtrDebit, LtrNear001, LtrNear015})
    \cup Layout(AltHeader, AltBlocks, {AltDebit, AltCredit})
    \cup Layout(RtlHeader, RtlBlocks, {RtlDebit, RtlNear005, RtlNear010})

Documents ==
    \* no page; one page
    {<<>>} \cup {<<page>> : page \in FirstPages}
    \* a second page of fewer than three lines
    \cup {<<page, << <<"Statement">>, LtrHeader>> >> : page \in FirstPages}
    \* first pages with fields, before one row at most
    \cup {<<page, SecondPage(header, body)>> :
            page \in FirstPages, header \in {LtrHeader, AltHeader, RtlHeader},
            body \in {<<>>, LtrDebit, AltDebit, RtlDebit}}
    \cup {<<PlainFirstPage>> \o rest : rest \in Layouts}

Init ==
    /\ text_pages \in Documents
    /\ pc = "start"
    /\ is_LTR = FALSE
    /\ different_amount_format = FALSE
    /\ language = "english"
    /\ account_info = <<>>
    /\ transactions = <<>>
    /\ last_valid_date = None
    /\ page_idx = 0
    /\ line_idx = 0
    /\ monthly_analysis = <<>>
    /\ result = [kind |-> "none"]
    /\ UnitIdle
    /\ BackendIdle

Next ==
    \/ CheckPages
    \/ ExtractHeader
    \/ ExtractAccountInfo
    \/ ScanLineLTR
    \/ ScanLineRTL
    \/ AnalyzeMonthly
    \/ Compile

Spec == Init /\ [][Next]_vars

-----------------------------------------------------------------------------
(* process_bank_statement called twice on one extractor with the same      *)
(* pages.  The caller keeps the outcome of the first call in ret; returned *)
(* says that the first call is over.  Whatever the first call left in the  *)
(* variables is still there when the second call starts: the second call   *)
(* sees only what its own assignments write.  The documents are those in   *)
(* which no two balances are exactly 0.01 apart (a float comparison gives  *)
(* the same answer each time it is made on the same two floats).           *)

RepeatLayouts ==
    Layout(LtrHeader, LtrBlocks, {LtrDebit, LtrNear001})
    \cup Layout(AltHeader, AltBlocks, {AltDebit, AltCredit})
    \cup Layout(RtlHeader, RtlBlocks, {RtlDebit, RtlNear005})

RepeatDocuments ==
    {<<>>} \cup {<<page>> : page \in FirstPages}
    \cup {<<page, << <<"Statement">>, LtrHeader>> >> : page \in FirstPages}
    \cup {<<PlainFirstPage>> \o rest : rest \in RepeatLayouts}

InitRepeat ==
    /\ text_pages \in RepeatDocuments
    /\ pc = "start"
    /\ is_LTR = FALSE
    /\ different_amount_format = FALSE
    /\ language = "english"
    /\ account_info = <<>>
    /\ transactions = <<>>
    /\ last_valid_date = None
    /\ page_idx = 0
    /\ line_idx = 0
    /\ monthly_analysis = <<>>
    /\ result = [kind |-> "none"]
    /\ callee = "process_bank_statement"
    /\ args = <<>>
    /\ ret = None
    /\ returned = FALSE
    /\ BackendIdle

\* The first call is over; the caller calls process_bank_statement again.
CallAgain ==
    /\ pc \in {"returned", "raised"}
    /\ ~returned
    /\ ret' = result
    /\ returned' = TRUE
    /\ pc' = "start"
    /\ UNCHANGED <<callee, args>>
    /\ UNCHANGED <<text_pages, is_LTR, different_amount_format, language,
                   account_info, transactions, last_valid_date, page_idx,
                   line_idx, monthly_analysis, result>>
    /\ UNCHANGED backend_vars

NextRepeat ==
    \/ CheckPages
    \/ ExtractHeader
    \/ ExtractAccountInfo
    \/ ScanLineLTR
    \/ ScanLineRTL
    \/ AnalyzeMonthly
    \/ Compile
    \/ CallAgain

SpecRepeat == InitRepeat /\ [][NextRepeat]_vars

-----------------------------------------------------------------------------
(* Unit calls of the amount functions: parse_amount_sequence on a list of  *)
(* amounts, extract_amounts on a text, parse_transaction_line on a window. *)

MaxAmounts == 3

AmountValues == {0 - 20 * Scale, 0, 30 * Scale, 50 * Scale, 75 * Scale,
                 100 * Scale, 500 * Scale}

RECURSIVE ListsOf(_, _)
ListsOf(S, n) ==
    IF n = 0 THEN {<<>>}
    ELSE ListsOf(S, n - 1)
         \cup {Append(l, x) : l \in ListsOf(S, n - 1), x \in S}

AmountLists == ListsOf(AmountValues, MaxAmounts)

\* Texts of up to MaxAmounts amounts without a currency, and the same
\* before a narrative.
AltCells == {<<"-">> \o Money(20, c00), Money(0, c00), Money(30, c00),
             Money(50, c00)}

AmountTexts ==
    {Row(cells) : cells \in ListsOf(AltCells, MaxAmounts)}
    \cup {Row(Append(cells, <<"Transfer">>)) : cells \in ListsOf(AltCells, MaxAmounts)}

\* Windows: a date line, a line of up to MaxAmounts amounts (with the
\* currency for the standard format, without for the alternate one), and a
\* narrative.
SarCells == {Sar(Money(0, c00)), Sar(Money(50, c00)), Sar(Money(75, c00)),
             Sar(Money(100, c00)), Sar(Money(500, c00))}

AmountWindows ==
    {<<<<DateText(2024, 6, 17), Row(cells), <<"Transfer">> >>, 0, FALSE>> :
        cells \in ListsOf(SarCells, MaxAmounts)}
    \cup {<<<<DateText(2024, 6, 17), Row(cells), <<"Transfer">> >>, 0, TRUE>> :
            cells \in ListsOf(AltCells, MaxAmounts)}

InitAmounts ==
    /\ PipelineIdle
    /\ \/ callee = "parse_amount_sequence" /\ args \in {<<l>> : l \in AmountLists}
       \/ callee = "extract_amounts" /\ args \in {<<t>> : t \in AmountTexts}
       \/ callee = "parse_transaction_line" /\ args \in AmountWindows
    /\ ret = None
    /\ returned = FALSE
    /\ BackendIdle

CallParseAmountSequence ==
    /\ callee = "parse_amount_sequence"
    /\ ~returned
    /\ ret' = parse_amount_sequence(args[1])
    /\ returned' = TRUE
    /\ UNCHANGED <<callee, args>>
    /\ UNCHANGED pipeline_vars
    /\ UNCHANGED backend_vars

CallExtractAmounts ==
    /\ callee = "extract_amounts"
    /\ ~returned
    /\ ret' = extract_amounts(args[1])
    /\ returned' = TRUE
    /\ UNCHANGED <<callee, args>>
    /\ UNCHANGED pipeline_vars
    /\ UNCHANGED backend_vars

CallParseTransactionLine ==
    /\ callee = "parse_transaction_line"
    /\ ~returned
    /\ ret' = parse_transaction_line(args[1], args[2], args[3])
    /\ returned' = TRUE
    /\ UNCHANGED <<callee, args>>
    /\ UNCHANGED pipeline_vars
    /\ UNCHANGED backend_vars

NextAmounts ==
    \/ CallParseAmountSequence
    \/ CallExtractAmounts
    \/ CallParseTransactionLine

SpecAmounts == InitAmounts /\ [][NextAmounts]_vars

-----------------------------------------------------------------------------
(* Unit calls of extract_account_info on first pages of up to              *)
(* MaxFieldLines lines, each a label with a value; the language is the one *)
(* detect_language finds, as in process_bank_statement.                    *)

MaxFieldLines == 3

FieldLines ==
    {<<"Customer", " ", "Name", ":", " ", "Ali">>,
     <<"Customer", " ", "Name", ":", " ", "Omar">>,
     <<"Account", " ", "Holder", ":", " ", "Sara">>,
     <<"Opening", " ", "Balance", ":", " ", "1", ",", "0", "0", "0", ".", "0", "0",
       " ", "SAR">>,
     <<"Opening", " ", "Balance", ":", " ", "none">>,
     <<"IBAN", ":", " ", "SA1">>,
     <<"AR_RAQM", " ", "AR_ALHISAB", ":", " ", "1", "2", "3">>,
     <<"AR_RAQM", " ", "AR_HISAB", ":", " ", "4", "5", "6">>}

FieldTexts == {PageText(lines) : lines \in ListsOf(FieldLines, MaxFieldLines)}

InitFields ==
    /\ PipelineIdle
    /\ callee = "extract_account_info"
    /\ args \in {<<text, detect_language(text), fmt>> :
                    text \in FieldTexts, fmt \in BOOLEAN}
    /\ ret = None
    /\ returned = FALSE
    /\ BackendIdle

CallExtractAccountInfo ==
    /\ callee = "extract_account_info"
    /\ ~returned
    /\ ret' = extract_account_info(args[1], args[2], args[3])
    /\ returned' = TRUE
    /\ UNCHANGED <<callee, args>>
    /\ UNCHANGED pipeline_vars
    /\ UNCHANGED backend_vars

NextFields == CallExtractAccountInfo

SpecFields == InitFields /\ [][NextFields]_vars

-----------------------------------------------------------------------------
(* Unit calls of analyze_monthly_transactions on up to MaxTransactions     *)
(* transactions as the right-to-left segmenter appends them: dates in any  *)
(* order, no transaction directly after its duplicate.                     *)

MaxTransactions == 3

MonthlyTransactions ==
    {Transaction(DateText(2024, 6, 17), <<"Transfer">>, 100 * Scale, 0, 500 * Scale),
     Transaction(DateText(2024, 6, 5), <<"IPS", " ", "Transfer">>, 0, 200 * Scale,
                 700 * Scale),
     Transaction(DateText(2024, 6, 17), <<"IPS", " ", "Payment">>, 50 * Scale,
                 20 * Scale, 450 * Scale),
     Transaction(DateText(2024, 5, 10), <<"IPS", " ", "Transfer">>, 0, 100 * Scale,
                 100 * Scale),
     Transaction(DateText(2024, 7, 1), <<"Transfer">>, 30 * Scale, 0, 420 * Scale),
     Transaction(DateText(2023, 6, 20), <<"Transfer">>, 10 * Scale, 0, 900 * Scale)}

MonthlyInputs ==
    {txns \in ListsOf(MonthlyTransactions, MaxTransactions) :
        \A k \in 1..(Len(txns) - 1) : txns[k] # txns[k + 1]}

InitMonthly ==
    /\ PipelineIdle
    /\ callee = "analyze_monthly_transactions"
    /\ args \in {<<txns>> : txns \in MonthlyInputs}
    /\ ret = None
    /\ returned = FALSE
    /\ BackendIdle

CallAnalyzeMonthly ==
    /\ callee = "analyze_monthly_transactions"
    /\ ~returned
    /\ ret' = analyze_monthly_transactions(args[1])
    /\ returned' = TRUE
    /\ UNCHANGED <<callee, args>>
    /\ UNCHANGED pipeline_vars
    /\ UNCHANGED backend_vars

NextMonthly == CallAnalyzeMonthly

SpecMonthly == InitMonthly /\ [][NextMonthly]_vars

-----------------------------------------------------------------------------
(* The backend: Ledger-Lens-backend/accounts.  The PasscodeConfig table    *)
(* holds one row (pk = 1) or none; config is <<>> or <<row>>.  Times are   *)
(* minutes on the clock now; NoTime is a NULL datetime.  A passcode is the *)
(* sequence of its characters.                                             *)

MaxAttempts == 5
PasscodeLockMinutes == 15
CredsLockMinutes == 30
PasscodeDays == 7
MinutesPerDay == 24 * 60

NoTime == 0 - 1

\* make_password / check_password: the hash is checked against the code it
\* was made from.
make_password(code) == [hash_of |-> code]
check_password(code, hash) == hash.hash_of = code

DefaultPasscode == <<"0", "0", "0", "0", "0", "0">>

\* get_or_create(pk=1, defaults=...): the row after the call.
get_config(cfg, time) ==
    IF Len(cfg) = 0
    THEN [passcode_hash |-> make_password(DefaultPasscode),
          expires_at |-> time + PasscodeDays * MinutesPerDay,
          passcode_attempts |-> 0,
          passcode_locked_until |-> NoTime,
          creds_attempts |-> 0,
          creds_locked_until |-> NoTime]
    ELSE cfg[1]

is_passcode_valid(row, code) == check_password(code, row.passcode_hash)

\* is_passcode_expired never answering that the passcode is expired.
IsPasscodeNeverExpired(row, time) == FALSE

is_passcode_expired(row, time) == time > row.expires_at

\* is_passcode_locked(): the answer, and the row it leaves (an expired
\* lock is cleared and the row saved).
is_passcode_locked(row, time) ==
    IF row.passcode_locked_until # NoTime
    THEN IF time < row.passcode_locked_until
         THEN [locked |-> TRUE, row |-> row]
         ELSE [locked |-> FALSE,
               row |-> [row EXCEPT !.passcode_attempts = 0,
                                   !.passcode_locked_until = NoTime]]
    ELSE [locked |-> FALSE, row |-> row]

is_creds_locked(row, time) ==
    IF row.creds_locked_until # NoTime
    THEN IF time < row.creds_locked_until
         THEN [locked |-> TRUE, row |-> row]
         ELSE [locked |-> FALSE,
               row |-> [row EXCEPT !.creds_attempts = 0,
                                   !.creds_locked_until = NoTime]]
    ELSE [locked |-> FALSE, row |-> row]

\* increment_passcode_attempts counting without ever locking.
IncrementPasscodeAttemptsNoLock(row, time) ==
    [row EXCEPT !.passcode_attempts = row.passcode_attempts + 1]

increment_passcode_attempts(row, time) ==
    IF row.passcode_attempts + 1 >= MaxAttempts
    THEN [row EXCEPT !.passcode_attempts = row.passcode_attempts + 1,
                     !.passcode_locked_until = time + PasscodeLockMinutes]
    ELSE [row EXCEPT !.passcode_attempts = row.passcode_attempts + 1]

increment_creds_attempts(row, time) ==
    IF row.creds_attempts + 1 >= MaxAttempts
    THEN [row EXCEPT !.creds_attempts = row.creds_attempts + 1,
                     !.creds_locked_until = time + CredsLockMinutes]
    ELSE [row EXCEPT !.creds_attempts = row.creds_attempts + 1]

reset_attempts(row) ==
    [row EXCEPT !.passcode_attempts = 0,
                !.creds_attempts = 0,
                !.passcode_locked_until = NoTime,
                !.creds_locked_until = NoTime]

\* PasscodeConfig.reset_passcode(new_code)
ResetPasscodeRow(row, new_code, time) ==
    reset_attempts([row EXCEPT !.passcode_hash = make_password(new_code),
                               !.expires_at = time + PasscodeDays * MinutesPerDay])

\* not code or len(code) != 6 or not code.isdigit()
IsSixDigits(code) ==
    Len(code) = 6 /\ \A i \in 1..Len(code) : IsDigit(code[i])

\* The outcome of a view on the passcode row: the response's status, the
\* table after it, and whether the session is marked authenticated.
ViewOutcome(status, cfg, authenticated) ==
    [status |-> status, config |-> cfg, authenticated |-> authenticated]

\* login_with_passcode once the passcode is not locked: expiry, then the
\* comparison with the hash.
LoginChecked(row, time, passcode) ==
    IF is_passcode_expired(row, time)
    THEN ViewOutcome(403, <<row>>, FALSE)
    ELSE IF is_passcode_valid(row, passcode)
    THEN ViewOutcome(200, <<reset_attempts(row)>>, TRUE)
    ELSE ViewOutcome(
             IF MaxAttempts - increment_passcode_attempts(row, time).passcode_attempts > 0
             THEN 401 ELSE 429,
             <<increment_passcode_attempts(row, time)>>, FALSE)

LoginLockChecked(lock, time, passcode) ==
    IF lock.locked
    THEN ViewOutcome(429, <<lock.row>>, FALSE)
    ELSE LoginChecked(lock.row, time, passcode)

\* login_with_passcode(request), request.data['passcode'] = passcode
login_with_passcode(cfg, time, passcode) ==
    IF ~IsSixDigits(Strip(passcode))
    THEN ViewOutcome(400, cfg, FALSE)
    ELSE LoginLockChecked(is_passcode_locked(get_config(cfg, time), time),
                          time, Strip(passcode))

\* os.getenv('ADMIN_USERNAME', 'admin'), os.getenv('ADMIN_PASSWORD', '')
AdminUsername == <<"admin">>
AdminPassword == <<"secret">>

ResetLockChecked(lock, time, username, password, new_passcode) ==
    IF lock.locked
    THEN ViewOutcome(429, <<lock.row>>, FALSE)
    ELSE IF username # AdminUsername \/ password # AdminPassword
    THEN ViewOutcome(
             IF MaxAttempts - increment_creds_attempts(lock.row, time).creds_attempts > 0
             THEN 401 ELSE 429,
             <<increment_creds_attempts(lock.row, time)>>, FALSE)
    ELSE ViewOutcome(200, <<ResetPasscodeRow(lock.row, new_passcode, time)>>, FALSE)

\* reset_passcode(request)
reset_passcode(cfg, time, username, password, new_passcode, confirm_passcode) ==
    IF Len(Strip(username)) = 0 \/ Len(Strip(password)) = 0
    THEN ViewOutcome(400, cfg, FALSE)
    ELSE IF ~IsSixDigits(Strip(new_passcode))
    THEN ViewOutcome(400, cfg, FALSE)
    ELSE IF Strip(new_passcode) # Strip(confirm_passcode)
    THEN ViewOutcome(400, cfg, FALSE)
    ELSE ResetLockChecked(is_creds_locked(get_config(cfg, time), time), time,
                          Strip(username), Strip(password), Strip(new_passcode))

\* check_auth_status(request): the table after its two lock checks.
check_auth_status(cfg, time) ==
    <<is_creds_locked(is_passcode_locked(get_config(cfg, time), time).row,
                      time).row>>

\* The init_passcode command with --passcode: the table after it.
init_passcode(cfg, time, passcode) ==
    IF ~IsSixDigits(passcode) THEN cfg
    ELSE IF Len(cfg) = 0
    THEN <<[passcode_hash |-> make_password(passcode),
            expires_at |-> time + PasscodeDays * MinutesPerDay,
            passcode_attempts |-> 0,
            passcode_locked_until |-> NoTime,
            creds_attempts |-> 0,
            creds_locked_until |-> NoTime]>>
    ELSE <<ResetPasscodeRow(cfg[1], passcode, time)>>

-----------------------------------------------------------------------------
(* The backend's requests.  Each view is one step.  The clock moves to the *)
(* instants at which a stored deadline passes.                             *)

Sessions == {"s1", "s2"}

MaxUploads == 1
MaxTime == 40
RemainingValidity == 20

Passcode123456 == <<"1", "2", "3", "4", "5", "6">>
Passcodes == {DefaultPasscode, Passcode123456, <<"1", "2", "3", "4", "5">>}

Credentials ==
    {<<AdminUsername, AdminPassword>>, <<AdminUsername, <<"guess">> >>,
     <<AdminUsername, <<>> >>}

\* new_passcode and confirm_passcode
NewPasscodes ==
    {<<Passcode123456, Passcode123456>>, <<Passcode123456, DefaultPasscode>>,
     <<<<"1", "2", "3", "4", "5">>, <<"1", "2", "3", "4", "5">> >>}

\* request.FILES['file'].name, <<>> when the request has no file
NoFile == <<>>
Files == {NoFile, <<"statement", ".", "pdf">>, <<"STATEMENT", ".", "PDF">>,
          <<"notes", ".", "txt">>}

\* str.lower() of a word
Lower(w) ==
    IF w = "PDF" THEN "pdf" ELSE IF w = "STATEMENT" THEN "statement" ELSE w

\* name.lower().endswith('.pdf')
IsPdfName(name) ==
    /\ Len(name) >= 2
    /\ Lower(name[Len(name) - 1]) = "."
    /\ Lower(name[Len(name)]) = "pdf"

\* A response: the endpoint that answers, the status, and the session of
\* the request it answers.
Response(endpoint, status, s) ==
    [endpoint |-> endpoint, status |-> status, session |-> s]

\* The table as the init_passcode command left it some days ago, the
\* passcode still valid for RemainingValidity minutes.
EarlierConfig ==
    <<[passcode_hash |-> make_password(Passcode123456),
       expires_at |-> RemainingValidity,
       passcode_attempts |-> 0,
       passcode_locked_until |-> NoTime,
       creds_attempts |-> 0,
       creds_locked_until |-> NoTime]>>

\* The locals of a background thread that has read nothing yet: the
\* pdf_upload instance, the results of the extraction, the Transaction
\* rows created so far.
NoLocals == [pdf_upload |-> None, results |-> None, created |-> 0]

InitBackend ==
    /\ PipelineIdle
    /\ UnitIdle
    /\ now = 0
    /\ config \in {<<>>, EarlierConfig}
    /\ session = [s \in Sessions |-> FALSE]
    /\ uploads = <<>>
    /\ worker_pc = [i \in 1..MaxUploads |-> "none"]
    /\ response = Response("none", 0, "none")
    /\ worker = [i \in 1..MaxUploads |-> NoLocals]
    /\ inflight = [s \in Sessions |-> None]
    /\ checked = 0

\* The first instants at which a stored deadline has passed: a lock is over
\* at its time (now < locked_until fails), the passcode is expired after
\* expires_at (now > expires_at).
PassingInstants ==
    IF Len(config) = 0 THEN {}
    ELSE ({config[1].passcode_locked_until, config[1].creds_locked_until}
            \ {NoTime})
         \cup {config[1].expires_at + 1}

\* Time passes until a stored deadline has passed.
Elapse ==
    /\ \E t \in PassingInstants :
           /\ t > now
           /\ t <= MaxTime
           /\ now' = t
    /\ UNCHANGED <<config, session, uploads, worker_pc, response>>
    /\ UNCHANGED overlap_vars
    /\ UNCHANGED pipeline_vars
    /\ UNCHANGED unit_vars

\* A view of the passcode table answers.
AuthViewDone(endpoint, s, status, cfg, sessions) ==
    /\ response' = Response(endpoint, status, s)
    /\ config' = cfg
    /\ session' = sessions
    /\ UNCHANGED <<now, uploads, worker_pc>>
    /\ UNCHANGED overlap_vars
    /\ UNCHANGED pipeline_vars
    /\ UNCHANGED unit_vars

LoginDone(s, out) ==
    AuthViewDone("login", s, out.status, out.config,
                 IF out.authenticated THEN [session EXCEPT ![s] = TRUE]
                 ELSE session)

\* POST auth/login/
LoginWithPasscode ==
    \E s \in Sessions : \E passcode \in Passcodes :
        LoginDone(s, login_with_passcode(config, now, passcode))

ResetDone(s, out) ==
    AuthViewDone("reset-passcode", s, out.status, out.config, session)

\* POST auth/reset-passcode/
ResetPasscode ==
    \E s \in Sessions : \E cred \in Credentials : \E codes \in NewPasscodes :
        ResetDone(s, reset_passcode(config, now, cred[1], cred[2], codes[1], codes[2]))

\* GET auth/status/
CheckAuthStatus ==
    \E s \in Sessions :
        AuthViewDone("status", s, 200, check_auth_status(config, now), session)

\* POST auth/logout/: request.session.flush()
Logout ==
    \E s \in Sessions :
        AuthViewDone("logout", s, 200, config, [session EXCEPT ![s] = FALSE])

\* manage.py init_passcode --passcode ...
InitPasscode ==
    /\ \E passcode \in Passcodes : config' = init_passcode(config, now, passcode)
    /\ UNCHANGED <<now, session, uploads, worker_pc, response>>
    /\ UNCHANGED overlap_vars
    /\ UNCHANGED pipeline_vars
    /\ UNCHANGED unit_vars

\* require_authentication letting every request in.
RequireNothing(s) == TRUE

\* request.session.get('authenticated', False), the test of the
\* require_authentication decorator.
require_authentication(s) == session[s]

\* A PDF view answers: 401 without going into the view when the session is
\* not authenticated, else the view's answer and its effect on the tables.
PdfViewDone(s, endpoint, status, rows, workers) ==
    /\ IF require_authentication(s)
       THEN /\ response' = Response(endpoint, status, s)
            /\ uploads' = rows
            /\ worker_pc' = workers
       ELSE /\ response' = Response(endpoint, 401, s)
            /\ UNCHANGED <<uploads, worker_pc>>
    /\ UNCHANGED <<now, config, session>>
    /\ UNCHANGED overlap_vars
    /\ UNCHANGED pipeline_vars
    /\ UNCHANGED unit_vars

\* The rows of uploads without those of ids.
Without(rows, ids) == [i \in (DOMAIN rows) \ ids |-> rows[i]]

Pending(rows) == {i \in DOMAIN rows : ~rows[i].processed}

\* The id the next PDFUpload.objects.create gets.
NextId == Cardinality({i \in DOMAIN worker_pc : worker_pc[i] # "none"}) + 1

\* A PDFUpload row as objects.create leaves it.  transaction_rows is the
\* number of Transaction rows whose pdf_upload is this row; they go with it
\* (on_delete=CASCADE) and cannot be without it (the foreign key).
NewUpload ==
    [processed |-> FALSE, processing_error |-> None,
     total_transactions |-> 0, transaction_rows |-> 0]

\* The rows after upload_pdf cleared the pending uploads and created id.
Uploaded(rows, id) ==
    [i \in ((DOMAIN rows) \ Pending(rows)) \cup {id} |->
        IF i = id THEN NewUpload ELSE rows[i]]

\* POST upload/
UploadPdf ==
    \E s \in Sessions : \E file \in Files :
        IF file = NoFile \/ ~IsPdfName(file)
        THEN PdfViewDone(s, "upload", 400, uploads, worker_pc)
        ELSE /\ NextId \in DOMAIN worker_pc
             /\ PdfViewDone(s, "upload", 202, Uploaded(uploads, NextId),
                            [worker_pc EXCEPT ![NextId] = "started"])

\* GET list/
ListPdfUploads ==
    \E s \in Sessions : PdfViewDone(s, "list", 200, uploads, worker_pc)

\* GET results/<pdf_id>/
GetPdfResults ==
    \E s \in Sessions : \E pdf_id \in DOMAIN worker_pc :
        PdfViewDone(s, "results", IF pdf_id \in DOMAIN uploads THEN 200 ELSE 404,
                    uploads, worker_pc)

\* get_pdf_results looking at processing_error before processed.
PollStatusErrorFirst(row) ==
    IF row.processing_error # None THEN "error"
    ELSE IF row.processed THEN "completed"
    ELSE "processing"

\* The status get_pdf_results answers for a row: processed is looked at
\* first, then processing_error.
PollStatus(row) ==
    IF row.processed THEN "completed"
    ELSE IF row.processing_error # None THEN "error"
    ELSE "processing"

\* POST stop/<pdf_id>/
StopPdfProcessing ==
    \E s \in Sessions : \E pdf_id \in DOMAIN worker_pc :
        PdfViewDone(s, "stop", IF pdf_id \in DOMAIN uploads THEN 200 ELSE 404,
                    Without(uploads, {pdf_id}), worker_pc)

\* DELETE delete/<pdf_id>/
DeletePdfUpload ==
    \E s \in Sessions : \E pdf_id \in DOMAIN worker_pc :
        PdfViewDone(s, "delete", IF pdf_id \in DOMAIN uploads THEN 204 ELSE 404,
                    Without(uploads, {pdf_id}), worker_pc)

\* The row of an upload after its background thread: processed with the
\* results, or with the error of the extraction.
Processed(row, ok) ==
    IF ok THEN [row EXCEPT !.processed = TRUE]
    ELSE [row EXCEPT !.processing_error = <<"error">>]

\* process_pdf_background(pdf_upload_id), the thread upload_pdf started.
ProcessPdfBackground ==
    /\ \E id \in DOMAIN worker_pc :
           /\ worker_pc[id] = "started"
           /\ worker_pc' = [worker_pc EXCEPT ![id] = "done"]
           /\ IF id \in DOMAIN uploads /\ ~uploads[id].processed
              THEN \E ok \in BOOLEAN :
                       uploads' = [uploads EXCEPT ![id] = Processed(uploads[id], ok)]
              ELSE UNCHANGED uploads
    /\ UNCHANGED <<now, config, session, response>>
    /\ UNCHANGED overlap_vars
    /\ UNCHANGED pipeline_vars
    /\ UNCHANGED unit_vars

\* The background thread step by step (SpecWorker): between two of its
\* database statements any request may be served.

\* The transactions of a statement.
MaxRows == 2

WorkerAt(id, at) == id \in DOMAIN worker_pc /\ worker_pc[id] = at

\* The thread of id goes to `at` with the locals `locals`.
WorkerGoes(id, at, locals) ==
    /\ worker_pc' = [worker_pc EXCEPT ![id] = at]
    /\ worker' = [worker EXCEPT ![id] = locals]

\* The thread of id returns.
WorkerReturns(id) == WorkerGoes(id, "done", NoLocals)

\* instance.save(): UPDATE of the row with the instance's fields, and
\* INSERT of the instance when no row was updated.
Save(rows, id, instance) ==
    [i \in (DOMAIN rows) \cup {id} |->
        IF i # id THEN rows[i]
        ELSE [instance EXCEPT !.transaction_rows =
                 IF id \in DOMAIN rows THEN rows[id].transaction_rows ELSE 0]]

\* pdf_upload = PDFUpload.objects.get(id=pdf_upload_id) and the test of
\* pdf_upload.processed.
WorkerLoad ==
    /\ \E id \in DOMAIN worker_pc :
           /\ WorkerAt(id, "started")
           /\ IF id \in DOMAIN uploads /\ ~uploads[id].processed
              THEN WorkerGoes(id, "loaded",
                              [worker[id] EXCEPT !.pdf_upload = <<uploads[id]>>])
              ELSE WorkerReturns(id)
    /\ UNCHANGED <<now, config, session, uploads, response, inflight, checked>>
    /\ UNCHANGED pipeline_vars
    /\ UNCHANGED unit_vars

\* What extractor.process_bank_statement can give for an upload that is
\* still there: results with their transactions, the record of an error,
\* or an exception.
ExtractionOutcomes ==
    {[kind |-> "results", total |-> n] : n \in 0..MaxRows}
        \cup {[kind |-> "error", total |-> 0], [kind |-> "raised", total |-> 0]}

\* The second look at the row, and the extraction; an upload deleted by
\* then ends the thread (the row is not found, or the extraction stops).
WorkerExtract ==
    /\ \E id \in DOMAIN worker_pc :
           /\ WorkerAt(id, "loaded")
           /\ IF id \notin DOMAIN uploads
              THEN WorkerReturns(id)
              ELSE \E results \in ExtractionOutcomes :
                       WorkerGoes(id, results.kind,
                                  [worker[id] EXCEPT !.results = <<results>>])
    /\ UNCHANGED <<now, config, session, uploads, response, inflight, checked>>
    /\ UNCHANGED pipeline_vars
    /\ UNCHANGED unit_vars

\* pdf_upload.processing_error = results['error']; pdf_upload.save()
WorkerSaveError ==
    /\ \E id \in DOMAIN worker_pc :
           /\ WorkerAt(id, "error")
           /\ uploads' = Save(uploads, id,
                   [worker[id].pdf_upload[1] EXCEPT !.processing_error = <<"error">>])
           /\ WorkerReturns(id)
    /\ UNCHANGED <<now, config, session, response, inflight, checked>>
    /\ UNCHANGED pipeline_vars
    /\ UNCHANGED unit_vars

\* pdf_upload.processed = True, the fields of the results, and save().
WorkerSaveResults ==
    /\ \E id \in DOMAIN worker_pc :
           /\ WorkerAt(id, "results")
           /\ uploads' = Save(uploads, id,
                   [worker[id].pdf_upload[1] EXCEPT
                       !.processed = TRUE,
                       !.total_transactions = worker[id].results[1].total])
           /\ WorkerGoes(id, "saved", worker[id])
    /\ UNCHANGED <<now, config, session, response, inflight, checked>>
    /\ UNCHANGED pipeline_vars
    /\ UNCHANGED unit_vars

\* One turn of the loop over the transactions: Transaction.objects.create,
\* which raises when the row of the upload is gone or the insert fails;
\* after the last one the thread ends.
WorkerCreateTransaction ==
    /\ \E id \in DOMAIN worker_pc :
           /\ WorkerAt(id, "saved")
           /\ IF worker[id].created = worker[id].results[1].total
              THEN WorkerReturns(id) /\ UNCHANGED uploads
              ELSE IF id \notin DOMAIN uploads
              THEN WorkerGoes(id, "raised", worker[id]) /\ UNCHANGED uploads
              ELSE \/ /\ uploads' = [uploads EXCEPT ![id].transaction_rows = @ + 1]
                      /\ WorkerGoes(id, "saved",
                                    [worker[id] EXCEPT !.created = @ + 1])
                   \/ WorkerGoes(id, "raised", worker[id]) /\ UNCHANGED uploads
    /\ UNCHANGED <<now, config, session, response, inflight, checked>>
    /\ UNCHANGED pipeline_vars
    /\ UNCHANGED unit_vars

\* except Exception: pdf_upload = PDFUpload.objects.get(id=pdf_upload_id);
\* a row that is gone ends the thread.
WorkerHandlerLoad ==
    /\ \E id \in DOMAIN worker_pc :
           /\ WorkerAt(id, "raised")
           /\ IF id \in DOMAIN uploads
              THEN WorkerGoes(id, "handling",
                              [worker[id] EXCEPT !.pdf_upload = <<uploads[id]>>])
              ELSE WorkerReturns(id)
    /\ UNCHANGED <<now, config, session, uploads, response, inflight, checked>>
    /\ UNCHANGED pipeline_vars
    /\ UNCHANGED unit_vars

\* pdf_upload.processing_error = str(e); pdf_upload.save()
WorkerHandlerSave ==
    /\ \E id \in DOMAIN worker_pc :
           /\ WorkerAt(id, "handling")
           /\ uploads' = Save(uploads, id,
                   [worker[id].pdf_upload[1] EXCEPT !.processing_error = <<"error">>])
           /\ WorkerReturns(id)
    /\ UNCHANGED <<now, config, session, response, inflight, checked>>
    /\ UNCHANGED pipeline_vars
    /\ UNCHANGED unit_vars

\* The uploads followed when their threads run step by step.
MaxThreads == 2

\* Session s1 has logged in with the passcode; nothing is uploaded yet, and
\* `threads` uploads are followed.
InitThreads(threads) ==
    /\ PipelineIdle
    /\ UnitIdle
    /\ now = 0
    /\ config = EarlierConfig
    /\ session = [s \in Sessions |-> s = "s1"]
    /\ uploads = <<>>
    /\ worker_pc = [i \in 1..threads |-> "none"]
    /\ response = Response("login", 200, "s1")
    /\ worker = [i \in 1..threads |-> NoLocals]
    /\ inflight = [s \in Sessions |-> None]
    /\ checked = 0

InitWorker == InitThreads(MaxThreads)

\* The PDF views and the threads they start.
NextWorker ==
    \/ UploadPdf
    \/ GetPdfResults
    \/ StopPdfProcessing
    \/ DeletePdfUpload
    \/ WorkerLoad
    \/ WorkerExtract
    \/ WorkerSaveError
    \/ WorkerSaveResults
    \/ WorkerCreateTransaction
    \/ WorkerHandlerLoad
    \/ WorkerHandlerSave

SpecWorker == InitWorker /\ [][NextWorker]_vars

\* The same with threads that run to their end: a thread that can take its
\* next step takes it at some time.  Nothing makes a request come.
InitPolling == InitThreads(MaxUploads)

\* A step of a thread.
ThreadStep ==
    \/ WorkerLoad
    \/ WorkerExtract
    \/ WorkerSaveError
    \/ WorkerSaveResults
    \/ WorkerCreateTransaction
    \/ WorkerHandlerLoad
    \/ WorkerHandlerSave

\* Uploads, polls and deletions, and the threads.
NextPolling ==
    \/ UploadPdf
    \/ GetPdfResults
    \/ DeletePdfUpload
    \/ WorkerLoad
    \/ WorkerExtract
    \/ WorkerSaveError
    \/ WorkerSaveResults
    \/ WorkerCreateTransaction
    \/ WorkerHandlerLoad
    \/ WorkerHandlerSave

SpecPolling == InitPolling /\ [][NextPolling]_vars /\ WF_vars(ThreadStep)

\* The passcode table over time: the authentication views and the clock.
NextAuth ==
    \/ Elapse
    \/ LoginWithPasscode
    \/ ResetPasscode
    \/ CheckAuthStatus
    \/ Logout
    \/ InitPasscode

SpecAuth == InitBackend /\ [][NextAuth]_vars

\* All the views and the background threads, in a span of time in which no
\* stored deadline passes.
NextBackend ==
    \/ LoginWithPasscode
    \/ ResetPasscode
    \/ CheckAuthStatus
    \/ Logout
    \/ InitPasscode
    \/ UploadPdf
    \/ ListPdfUploads
    \/ GetPdfResults
    \/ StopPdfProcessing
    \/ DeletePdfUpload
    \/ ProcessPdfBackground

SpecBackend == InitBackend /\ [][NextBackend]_vars

-----------------------------------------------------------------------------
(* Overlapping logins (SpecLogins): each request of login_with_passcode   *)
(* reads the PasscodeConfig row into its own instance, and what it saves   *)
(* later is that instance, whatever the table holds by then.  No lock, no  *)
(* select_for_update and no F() expression orders two requests.            *)

\* The logins followed: incorrect passcodes checked and requests in flight.
MaxChecked == 7

InFlight == {s \in Sessions : inflight[s] # None}

\* login_with_passcode up to config = PasscodeConfig.get_config(): the 400
\* answer, or the row read (created when the table is empty).
LoginRead ==
    /\ \E s \in Sessions : \E passcode \in Passcodes :
           /\ inflight[s] = None
           /\ checked + Cardinality(InFlight) < MaxChecked
           /\ IF ~IsSixDigits(Strip(passcode))
              THEN /\ response' = Response("login", 400, s)
                   /\ UNCHANGED <<config, inflight>>
              ELSE /\ config' = <<get_config(config, now)>>
                   /\ inflight' = [inflight EXCEPT ![s] =
                          <<[config |-> get_config(config, now),
                             passcode |-> Strip(passcode)]>>]
                   /\ UNCHANGED response
    /\ UNCHANGED <<now, session, uploads, worker_pc, worker, checked>>
    /\ UNCHANGED pipeline_vars
    /\ UNCHANGED unit_vars

\* Whether the handler called self.save() on its instance: reset_attempts
\* and increment_passcode_attempts always do, is_passcode_locked when the
\* lock it read has run out.
Saved(instance, out) == out.status = 200 \/ out.config # <<instance>>

\* Whether the handler reached is_passcode_valid and the passcode was not
\* the stored one.
CheckedIncorrect(instance, time, passcode) ==
    /\ ~is_passcode_locked(instance, time).locked
    /\ ~is_passcode_expired(is_passcode_locked(instance, time).row, time)
    /\ ~is_passcode_valid(instance, passcode)

\* The rest of login_with_passcode, on the instance the request read.
LoginFinished(s, instance, passcode, out) ==
    /\ response' = Response("login", out.status, s)
    /\ config' = IF Saved(instance, out) THEN out.config ELSE config
    /\ session' = IF out.authenticated THEN [session EXCEPT ![s] = TRUE]
                  ELSE session
    /\ checked' = IF out.status = 200 THEN 0
                  ELSE IF CheckedIncorrect(instance, now, passcode)
                  THEN checked + 1
                  ELSE checked
    /\ inflight' = [inflight EXCEPT ![s] = None]

LoginFinish ==
    /\ \E s \in InFlight :
           LoginFinished(s, inflight[s][1].config, inflight[s][1].passcode,
                         LoginLockChecked(
                             is_passcode_locked(inflight[s][1].config, now),
                             now, inflight[s][1].passcode))
    /\ UNCHANGED <<now, uploads, worker_pc, worker>>
    /\ UNCHANGED pipeline_vars
    /\ UNCHANGED unit_vars

NextLogins ==
    \/ LoginRead
    \/ LoginFinish

SpecLogins == InitBackend /\ [][NextLogins]_vars

-----------------------------------------------------------------------------
(* Properties of process_bank_statement (Spec).                            *)

Ended == pc \in {"returned", "raised"}

\* The result is the failure record {error: ...} and nothing else.
IsErrorRecord(r) == r.kind = "dict" /\ DOMAIN r.value = {"error"}

\* C1: with no page, process_bank_statement returns the failure record
\* {error: ...} alone, with no account_info, transactions, monthly_analysis
\* or analytics; it goes through no later step, raises nothing and returns
\* no success record.
C1_EmptyInputIsAnError ==
    Len(text_pages) = 0 =>
        /\ pc \in {"start", "returned"}
        /\ pc = "returned" => IsErrorRecord(result)

C1_EmptyInputReturned ==
    Len(text_pages) = 0 /\ pc = "returned" /\ result.kind = "dict"

\* C2: with exactly one page, the outcome of process_bank_statement is the
\* failure record {error: ...}; no exception is raised and no success
\* record is returned.
C2_OnePageIsAnError ==
    (Len(text_pages) = 1 /\ Ended) => IsErrorRecord(result)

\* C3: whichever segmenter scans, and at every point of its scan, no
\* transaction of the output list has debit = 0 and credit = 0 together.
C3_NoZeroAmountTransaction ==
    \A k \in 1..Len(transactions) :
        ~(transactions[k].debit = 0 /\ transactions[k].credit = 0)

\* A scan is over in which a row with debit 0 and credit 0 followed an
\* accepted row.
C3_ZeroAmountRowScanned ==
    /\ pc = "analyze"
    /\ text_pages = <<PlainFirstPage, SecondPage(LtrHeader, LtrDebit \o LtrNoMovement)>>
    /\ Len(transactions) = 1

\* Two transactions agree: equal dates, equal descriptions, balances less
\* than 0.01 apart.
Agree(a, b) ==
    /\ a.date = b.date
    /\ a.description = b.description
    /\ Abs(a.balance - b.balance) < DedupTolerance

\* C4: a step of either segmenter leaves the output list as it is or
\* appends one transaction to it, keeping the earlier ones, and never
\* appends a transaction that agrees with the last one (same date, same
\* description, balances less than 0.01 apart): such a candidate is
\* discarded, so no two adjacent transactions of the output agree.
C4_DuplicateDiscarded ==
    [][pc = "scan" =>
          \/ transactions' = transactions
          \/ /\ Len(transactions') = Len(transactions) + 1
             /\ SubSeq(transactions', 1, Len(transactions)) = transactions
             /\ Len(transactions) > 0 =>
                    ~Agree(transactions[Len(transactions)],
                           transactions'[Len(transactions')])]_vars

\* A scan is over in which a row came after a row of the same date and
\* description with a balance 0.004 away, and only the earlier is kept.
C4_NearDuplicateScanned ==
    /\ pc = "analyze"
    /\ text_pages = <<PlainFirstPage, SecondPage(LtrHeader, LtrNear005), LtrNear001>>
    /\ Len(transactions) = 1
    /\ transactions[1].balance = 500 * Scale + 5

\* C5: every month record of analyze_monthly_transactions with an opening
\* balance of 0 has a fluctuation of exactly 0, and the analysis raises no
\* division by zero.  (A month record always has an opening balance: a
\* month exists only with a transaction in it.)
C5_FluctuationSafety ==
    /\ pc = "raised" => result.exception # "ZeroDivisionError"
    /\ \A k \in 1..Len(monthly_analysis) :
           monthly_analysis[k].opening_balance = 0 =>
               monthly_analysis[k].fluctuation = Zero

\* The analysis returned a month that opens at 0 and has a net change.
C5_MonthOpeningAtZero ==
    /\ pc = "compile"
    /\ \E k \in 1..Len(monthly_analysis) :
           /\ monthly_analysis[k].opening_balance = 0
           /\ monthly_analysis[k].net_change # 0

\* C10: for two pages, the second with the "Date" header on its line 3,
\* then a date line, the line "100.00 SAR 0.00 SAR 500.00 SAR" and a
\* narrative, process_bank_statement returns a success record with exactly
\* one transaction, of debit 100.00, credit 0.00 and balance 500.00.
C10_EndToEnd ==
    (/\ Len(text_pages) = 2
     /\ text_pages[2] = SecondPage(LtrHeader, LtrDebit)
     /\ Ended) =>
        /\ result.kind = "dict"
        /\ "error" \notin DOMAIN result.value
        /\ result.value.total_transactions = 1
        /\ Len(result.value.transactions) = 1
        /\ result.value.transactions[1].debit = 100 * Scale
        /\ result.value.transactions[1].credit = 0
        /\ result.value.transactions[1].balance = 500 * Scale

C10_StatementProcessed ==
    /\ pc = "returned"
    /\ text_pages = <<EnglishFirstPage, SecondPage(LtrHeader, LtrDebit)>>
    /\ result.kind = "dict"
    /\ result.value.total_transactions = 1

-----------------------------------------------------------------------------
(* Properties of the amount functions (SpecAmounts).                       *)

\* C6: parse_amount_sequence maps three amounts [a, b, c] to (debit,
\* credit, balance) = (a, b, c), two amounts [a, b] to (a, 0, b) and one
\* amount [a] to (0, 0, a); [100.00, 50.00, 500.00] gives (100.00, 50.00,
\* 500.00) and [75.00] gives (0, 0, 75.00); and parse_transaction_line
\* rejects (returns None for) a window in which no amount is found.
C6_AmountMapping ==
    returned =>
        /\ callee = "parse_amount_sequence" =>
               /\ Len(args[1]) = 3 => ret = <<args[1][1], args[1][2], args[1][3]>>
               /\ Len(args[1]) = 2 => ret = <<args[1][1], 0, args[1][2]>>
               /\ Len(args[1]) = 1 => ret = <<0, 0, args[1][1]>>
               /\ args[1] = <<100 * Scale, 50 * Scale, 500 * Scale>> =>
                      ret = <<100 * Scale, 50 * Scale, 500 * Scale>>
               /\ args[1] = <<75 * Scale>> => ret = <<0, 0, 75 * Scale>>
        /\ callee = "parse_transaction_line" =>
               (Len(FoundAmounts(JoinLines(Window(args[1], args[2], SearchLinesAfter)),
                                 args[3]).amounts) = 0 =>
                    ret = None)

C6_ThreeAmountsMapped ==
    /\ returned
    /\ callee = "parse_amount_sequence"
    /\ args = << <<100 * Scale, 50 * Scale, 500 * Scale>> >>
    /\ ret = <<100 * Scale, 50 * Scale, 500 * Scale>>

\* The two amounts extract_amounts selected in a text, as numbers.
SelectedPair(full_text) ==
    [k \in 1..Len(RoughAmounts(full_text)) |->
        FloatParse(Replace(RoughAmounts(full_text)[k], <<",">>)).v]

-----------------------------------------------------------------------------
(* Properties of the date recognizer (SpecDate).                           *)

\* C8: extract_date_from_text finds the date of a line that goes on with
\* other text: "2024/06/17 description" gives (2024, 6, 17).
C8_DateBeforeText ==
    (returned /\ args = <<DateText(2024, 6, 17) \o <<" ", "description">> >>) =>
        ret = <<2024, 6, 17>>

\* C9: extract_date_from_text returns a date only with 1900 <= year <=
\* 2100, 1 <= month <= 12 and 1 <= day <= 31; it returns no date, and
\* raises nothing, for "2100/13/01".
C9_DateRanges ==
    returned =>
        /\ ret # None =>
               /\ Len(ret) = 3
               /\ 1900 <= ret[1] /\ ret[1] <= 2100
               /\ 1 <= ret[2] /\ ret[2] <= 12
               /\ 1 <= ret[3] /\ ret[3] <= 31
        /\ args = <<DateText(2100, 13, 1)>> => ret = None

C9_MonthThirteenRejected ==
    /\ returned
    /\ args = <<DateText(2100, 13, 1)>>
    /\ ret = None

-----------------------------------------------------------------------------
(* Properties of two calls of process_bank_statement (SpecRepeat).         *)

\* C11: a second call of process_bank_statement on the same extractor
\* with the same pages ends as the first call did: the same record
\* (account_info, transactions, monthly_analysis, analytics) or the same
\* exception; nothing the first call left behind, such as its
\* last_valid_date, reaches the second.
C11_SameOutcomeTwice ==
    (returned /\ Ended) => result = ret

\* Both calls are over and each accepted two transactions.
C11_TwoTransactionsTwice ==
    /\ returned
    /\ pc = "returned"
    /\ ret.kind = "dict"
    /\ "error" \notin DOMAIN ret.value
    /\ ret.value.total_transactions = 2
    /\ result = ret

-----------------------------------------------------------------------------
(* Further properties of process_bank_statement (Spec).                    *)

AnalyticsFields ==
    {"average_fluctuation", "net_cash_flow_stability",
     "total_foreign_transactions", "total_foreign_amount",
     "sum_total_inflow", "sum_total_outflow", "avg_total_inflow",
     "avg_total_outflow", "overdraft_frequency", "overdraft_total_days"}

\* C12: the analytics of every success record of process_bank_statement
\* have the same ten fields (average_fluctuation, net_cash_flow_stability,
\* total_foreign_transactions, total_foreign_amount, sum_total_inflow,
\* sum_total_outflow, avg_total_inflow, avg_total_outflow,
\* overdraft_frequency, overdraft_total_days), with or without months.
C12_AnalyticsFieldsAlwaysPresent ==
    (pc = "returned" /\ "analytics" \in DOMAIN result.value) =>
        DOMAIN result.value.analytics = AnalyticsFields

\* C13: no transaction of the output list has a negative debit or a
\* negative credit, whichever the segmenter and the amount format.
C13_AmountsNonNegative ==
    \A k \in 1..Len(transactions) :
        transactions[k].debit >= 0 /\ transactions[k].credit >= 0

\* Line 3 of page 2, stripped.
HeaderLine == Strip(text_pages[2][3])

\* C14: the amount format is the alternate one exactly when line 3 of page
\* 2 contains the Arabic presentation-form "transaction date" marker, and
\* then the RTL segmenter is the one that scans; with the "Date" label and
\* without the marker the LTR segmenter scans, in the standard format.
C14_LayoutClassification ==
    pc = "scan" =>
        /\ different_amount_format <=> IsSubstr(TransactionDateMarker, HeaderLine)
        /\ IsSubstr(TransactionDateMarker, HeaderLine) => ~is_LTR
        /\ (IsSubstr(<<"Date">>, HeaderLine)
              /\ ~IsSubstr(TransactionDateMarker, HeaderLine)) =>
               (is_LTR /\ ~different_amount_format)

-----------------------------------------------------------------------------
(* Properties of the backend's views (SpecBackend, SpecAuth).              *)

PdfEndpoints == {"upload", "list", "results", "stop", "delete"}

\* A background thread ends in the step.
WorkerStep ==
    \E id \in DOMAIN worker_pc :
        worker_pc[id] = "started" /\ worker_pc'[id] = "done"

\* C15: a PDF endpoint (upload, list, results, stop, delete) answers 401
\* and leaves the uploads as they are when the session of the request is
\* not authenticated, and a request changes the uploads only through a PDF
\* endpoint with an authenticated session; a session becomes authenticated
\* only in a login_with_passcode that answers 200, and is unauthenticated
\* after its logout.
C15_AuthenticationRequired ==
    [][/\ (/\ response' # response
           /\ response'.endpoint \in PdfEndpoints
           /\ ~session[response'.session]) =>
              (response'.status = 401 /\ uploads' = uploads)
       /\ (uploads' # uploads /\ ~WorkerStep) =>
              /\ response'.endpoint \in PdfEndpoints
              /\ session[response'.session]
       /\ \A s \in Sessions :
              /\ (~session[s] /\ session'[s]) =>
                     response' = Response("login", 200, s)
              /\ (response' # response /\ response' = Response("logout", 200, s)) =>
                     ~session'[s]]_vars

\* A session that is not authenticated asked to delete an existing upload
\* while another session is authenticated: 401, and the upload is there.
C15_UnauthenticatedDeleteRefused ==
    /\ session["s1"]
    /\ ~session["s2"]
    /\ response = Response("delete", 401, "s2")
    /\ 1 \in DOMAIN uploads


\* The passcode row a view works on: the stored one, or the default one
\* get_config creates.
PasscodeRow == get_config(config, now)

HasRow == Len(config) = 1

\* now < passcode_locked_until
PasscodeLocked ==
    /\ HasRow
    /\ config[1].passcode_locked_until # NoTime
    /\ now < config[1].passcode_locked_until

\* A lock was set and its time has passed.
LockRunOut ==
    /\ HasRow
    /\ config[1].passcode_locked_until # NoTime
    /\ now >= config[1].passcode_locked_until

PasscodeExpired == HasRow /\ now > config[1].expires_at

\* The failures that count at this instant: none once a lock has run out.
CountedAttempts ==
    IF ~HasRow \/ LockRunOut THEN 0 ELSE config[1].passcode_attempts

WellFormed(passcode) ==
    /\ Len(Strip(passcode)) = 6
    /\ \A i \in 1..Len(Strip(passcode)) :
           \E n \in 1..Len(DigitChars) : Strip(passcode)[i] = DigitChars[n]

Correct(passcode) == PasscodeRow.passcode_hash = [hash_of |-> Strip(passcode)]

\* The step is a login request of session s with this passcode.
LoginRequest(s, passcode) ==
    LoginDone(s, login_with_passcode(config, now, passcode))

\* The step is a reset-passcode request with the administrator's credentials.
AdminReset(s, codes) ==
    ResetDone(s, reset_passcode(config, now, AdminUsername, AdminPassword,
                                codes[1], codes[2]))

\* A login with a well-formed, incorrect passcode while the passcode is
\* neither locked nor expired is counted; the failure that brings the count
\* to MaxAttempts answers 429 and locks for PasscodeLockMinutes, the earlier
\* ones answer 401.
FailureCounted(s, passcode) ==
    (/\ LoginRequest(s, passcode)
     /\ WellFormed(passcode)
     /\ ~Correct(passcode)
     /\ ~PasscodeLocked
     /\ ~PasscodeExpired)
    => /\ config'[1].passcode_attempts = CountedAttempts + 1
       /\ IF CountedAttempts + 1 >= MaxAttempts
          THEN /\ response'.status = 429
               /\ config'[1].passcode_locked_until = now + PasscodeLockMinutes
          ELSE /\ response'.status = 401
               /\ config'[1].passcode_locked_until = NoTime

\* The count goes up by counted failures only, and goes back to 0 only by a
\* successful login, a passcode reset, init_passcode or a lock running out.
CountReset ==
    (HasRow /\ config'[1].passcode_attempts # config[1].passcode_attempts)
    => \/ /\ config'[1].passcode_attempts = CountedAttempts + 1
          /\ response'.endpoint = "login"
          /\ response'.status \in {401, 429}
       \/ /\ config'[1].passcode_attempts = 0
          /\ \/ LockRunOut
             \/ \E s \in Sessions : \E passcode \in Passcodes :
                    LoginRequest(s, passcode) /\ response'.status = 200
             \/ \E s \in Sessions : \E codes \in NewPasscodes :
                    AdminReset(s, codes) /\ response'.status = 200
             \/ InitPasscode

\* A login request while the lock lasts is refused with 429 and changes
\* neither the row nor any session.
RefusedWhileLocked(s, passcode) ==
    (LoginRequest(s, passcode) /\ PasscodeLocked)
    => /\ response'.status = 429
       /\ config' = config
       /\ session' = session

\* A login request whose passcode is not six digits is refused with 400
\* before the row is read.
MalformedRefused(s, passcode) ==
    (LoginRequest(s, passcode) /\ ~WellFormed(passcode))
    => /\ response'.status = 400
       /\ config' = config
       /\ session' = session

\* The login check after the lock time starts the count again from 0 and
\* clears the lock.
CountRestarts(s, passcode) ==
    (LoginRequest(s, passcode) /\ WellFormed(passcode) /\ LockRunOut)
    => /\ config'[1].passcode_attempts
            = IF Correct(passcode) \/ PasscodeExpired THEN 0 ELSE 1
       /\ config'[1].passcode_locked_until = NoTime

\* C16 as stated: the fifth counted failure answers 429 and locks the
\* passcode for 15 minutes; until then every login request, whatever its
\* passcode, is answered 429 and changes nothing; after the lock time the
\* next login check restarts the count.
C16_LockoutAsStated ==
    [][/\ CountReset
       /\ \A s \in Sessions : \A passcode \in Passcodes :
              /\ FailureCounted(s, passcode)
              /\ RefusedWhileLocked(s, passcode)
              /\ CountRestarts(s, passcode)]_vars

\* C16, amended: as above, with "every login request" narrowed to those
\* with a six-digit passcode; a request whose passcode is not six digits is
\* answered 400, locked or not, and changes nothing either.
C16_PasscodeLockout ==
    [][/\ CountReset
       /\ \A s \in Sessions : \A passcode \in Passcodes :
              /\ FailureCounted(s, passcode)
              /\ WellFormed(passcode) => RefusedWhileLocked(s, passcode)
              /\ MalformedRefused(s, passcode)
              /\ CountRestarts(s, passcode)]_vars

\* The fifth failure has just locked the passcode.
C16_FifthFailureLocks ==
    /\ HasRow
    /\ config[1].passcode_attempts = MaxAttempts
    /\ config[1].passcode_locked_until = now + PasscodeLockMinutes
    /\ response = Response("login", 429, "s1")
    /\ ~session["s1"]

\* The answer of a login request once the passcode is expired.
ExpiredLoginStatus(passcode) ==
    IF ~WellFormed(passcode) THEN 400
    ELSE IF PasscodeLocked THEN 429
    ELSE 403

\* A login request after expires_at authenticates no session, answers 403
\* to the correct passcode and leaves both attempt counters as they were.
ExpiredLoginAsStated(s, passcode) ==
    (LoginRequest(s, passcode) /\ PasscodeExpired)
    => /\ session' = session
       /\ response'.status # 200
       /\ Correct(passcode) => response'.status = 403
       /\ config'[1].passcode_attempts = config[1].passcode_attempts
       /\ config'[1].creds_attempts = config[1].creds_attempts

\* A login request after expires_at authenticates no session; it answers
\* 403, or 429 while the passcode is locked, or 400 to a malformed passcode;
\* it never adds to a counter, and the only change it makes is to clear a
\* lock that has run out, together with its count.
ExpiredLoginRefused(s, passcode) ==
    (LoginRequest(s, passcode) /\ PasscodeExpired)
    => /\ session' = session
       /\ response'.status = ExpiredLoginStatus(passcode)
       /\ config'[1].creds_attempts = config[1].creds_attempts
       /\ config'[1].passcode_attempts
            = IF WellFormed(passcode) THEN CountedAttempts
              ELSE config[1].passcode_attempts
       /\ config'[1].expires_at = config[1].expires_at
       /\ config'[1].passcode_hash = config[1].passcode_hash

\* The passcode stops being expired only by a reset-passcode request with
\* the administrator's credentials or by init_passcode, which set a new
\* passcode valid for PasscodeDays days and clear the counters and locks.
RenewedOnlyByReset ==
    (PasscodeExpired /\ ~PasscodeExpired')
    => /\ \/ \E s \in Sessions : \E codes \in NewPasscodes :
                AdminReset(s, codes) /\ response'.status = 200
          \/ InitPasscode
       /\ config'[1].expires_at = now + PasscodeDays * MinutesPerDay
       /\ \E code \in Passcodes :
              /\ WellFormed(code)
              /\ config'[1].passcode_hash = [hash_of |-> code]
       /\ config'[1].passcode_attempts = 0
       /\ config'[1].creds_attempts = 0
       /\ config'[1].passcode_locked_until = NoTime
       /\ config'[1].creds_locked_until = NoTime

-----------------------------------------------------------------------------
(* Properties of the segmenters (Spec).                                    *)

\* The body of the second page when it is made of these rows.
ScannedBody(header, body) ==
    /\ text_pages = <<PlainFirstPage, SecondPage(header, body)>>
    /\ pc = "analyze"

\* C18: in the left-to-right segmenter the dates of the accepted
\* transactions never decrease in output order, over all lines and pages:
\* no transaction is dated before one accepted earlier.
C18_DatesNonDecreasing ==
    is_LTR =>
        \A i \in 1..Len(transactions) : \A j \in i..Len(transactions) :
            ~DateBefore(date_to_datetime(transactions[j].date),
                        date_to_datetime(transactions[i].date))

\* A row of 10 May after an accepted row of 17 June has been scanned and
\* left out.
C18_EarlierDateLeftOut ==
    /\ ScannedBody(LtrHeader, LtrDebit \o LtrCreditMay)
    /\ is_LTR
    /\ Len(transactions) = 1
    /\ transactions[1].date = <<2024, 6, 17>>

\* C19: in the left-to-right segmenter last_valid_date changes only in a
\* step that appends a transaction, and then to that transaction's date;
\* a line whose candidate is rejected leaves last_valid_date and the output
\* as they were.
C19_DateChangesOnlyOnAppend ==
    [][(is_LTR /\ pc = "scan")
       => \/ /\ transactions' = transactions
             /\ last_valid_date' = last_valid_date
          \/ /\ Len(transactions') = Len(transactions) + 1
             /\ SubSeq(transactions', 1, Len(transactions)) = transactions
             /\ last_valid_date'
                  = date_to_datetime(transactions'[Len(transactions')].date)]_vars

\* A row of 18 June rejected for its debit and credit both 0 has been
\* scanned after an accepted row of 17 June.
C19_RejectedRowScanned ==
    /\ ScannedBody(LtrHeader, LtrDebit \o LtrNoMovement)
    /\ is_LTR
    /\ Len(transactions) = 1
    /\ last_valid_date = <<2024, 6, 17>>

\* The line the right-to-left segmenter is at.
RtlScanning == ~is_LTR /\ pc = "scan"

\* The currency-tagged amounts written on line i (0-based) and the next
\* two lines, in order of appearance.
AmountsOnLines(lines, i) == StandardAmounts(JoinLines(Window(lines, i, 3))).amounts

\* The transaction a step has appended.
Appended == transactions'[Len(transactions')]

\* C20: the right-to-left segmenter appends a transaction for a line only
\* if that line carries an amount, exactly 3 amounts are collected from it
\* and the next two lines, and a date was found; the balance, credit and
\* debit of the appended transaction are the first, second and third of the
\* amounts of these three lines.
C20_RtlThreeAmounts ==
    [][(RtlScanning /\ Len(transactions') > Len(transactions))
       => /\ extract_single_amount_rtl(
                 Strip(text_pages[page_idx + 1][line_idx + 1])).ok
          /\ Len(RtlAmounts(text_pages[page_idx + 1], line_idx)) = 3
          /\ Appended.date # None
          /\ AmountsOnLines(text_pages[page_idx + 1], line_idx)
               = <<Appended.balance, Appended.credit, Appended.debit>>]_vars

-----------------------------------------------------------------------------
(* Properties of extract_account_info (SpecFields).                        *)

\* The labels of a field that have a match in the text.
MatchingLabels(text, labels) ==
    {k \in 1..Len(labels) : Len(FieldMatches(text, labels[k], 1)) > 0}

\* The match the format picks among a label's matches.
PickedMatch(matches, fmt) ==
    IF fmt /\ Len(matches) >= 2 THEN matches[2] ELSE matches[1]

\* The value the first matching label gives, None when no label matches.
FirstLabelValue(text, labels, matching, fmt) ==
    IF matching = {} THEN NoValue
    ELSE StrValue(CleanValue(PickedMatch(
             FieldMatches(text, labels[CHOOSE k \in matching :
                                           \A j \in matching : k <= j], 1),
             fmt)))

ExpectedField(text, lang, fmt, f) ==
    FirstLabelValue(text, Patterns(f, lang),
                    MatchingLabels(text, Patterns(f, lang)), fmt)

\* C21: for every field the labels are tried in their listed order and the
\* first label with a match decides; the value is that label's first match
\* in the standard format, and in the alternate format its second match
\* when it has two or more and its only match otherwise; a field no label
\* of which matches is None.  (The two balances are the picked match read
\* as an amount.)
C21_FieldPickedByFormat ==
    (callee = "extract_account_info" /\ returned)
    => \A k \in 1..Len(Fields) :
           ret[Fields[k]] =
               IF Fields[k] \in {"opening_balance", "closing_balance"}
               THEN CleanBalance(ExpectedField(args[1], args[2], args[3], Fields[k]))
               ELSE ExpectedField(args[1], args[2], args[3], Fields[k])

\* In the alternate format a label with three matches gave its second, and
\* a field without a label on the page is None.
C21_SecondMatchPicked ==
    /\ callee = "extract_account_info"
    /\ returned
    /\ args[3]
    /\ args[1] = PageText(<< <<"Customer", " ", "Name", ":", " ", "Ali">>,
                             <<"Customer", " ", "Name", ":", " ", "Omar">>,
                             <<"Customer", " ", "Name", ":", " ", "Ali">> >>)
    /\ ret["customer_name"] = StrValue(<<"Omar">>)
    /\ ret["city"] = NoValue

-----------------------------------------------------------------------------
(* Properties of analyze_monthly_transactions (SpecMonthly).               *)

\* The call of analyze_monthly_transactions returns in this step.
MonthlyReturns ==
    callee = "analyze_monthly_transactions" /\ ~returned /\ returned'

\* The transactions of a year-month, in extraction order.
InMonth(txns, ym) ==
    SelectSeq(txns, LAMBDA t : YearMonth(date_to_datetime(t.date)) = ym)

\* The first of a group ordered by date, ties in extraction order: the
\* earliest transaction of the earliest date.
FirstByDate(group) ==
    group[CHOOSE i \in 1..Len(group) :
              \A j \in 1..Len(group) :
                  /\ ~DateBefore(date_to_datetime(group[j].date),
                                 date_to_datetime(group[i].date))
                  /\ date_to_datetime(group[j].date) = date_to_datetime(group[i].date)
                        => i <= j]

\* The last of a group ordered by date, ties in extraction order.
LastByDate(group) ==
    group[CHOOSE i \in 1..Len(group) :
              \A j \in 1..Len(group) :
                  /\ ~DateBefore(date_to_datetime(group[i].date),
                                 date_to_datetime(group[j].date))
                  /\ date_to_datetime(group[j].date) = date_to_datetime(group[i].date)
                        => j <= i]

MonthBoundaries(month, group) ==
    /\ Len(group) > 0
    /\ month.opening_balance
         = FirstByDate(group).balance - FirstByDate(group).credit
             + FirstByDate(group).debit
    /\ month.closing_balance = LastByDate(group).balance
    /\ \A k \in 1..Len(group) : month.minimum_balance <= group[k].balance
    /\ \E k \in 1..Len(group) : month.minimum_balance = group[k].balance

\* Every transaction's year-month has one record.
MonthsCover(months, txns) ==
    /\ \A k \in 1..Len(txns) : \E m \in 1..Len(months) :
           months[m].year_month = YearMonth(date_to_datetime(txns[k].date))
    /\ \A m, n \in 1..Len(months) :
           months[m].year_month = months[n].year_month => m = n

\* C22: for each year-month, with its transactions ordered by date and ties
\* in extraction order, opening_balance = first.balance - first.credit +
\* first.debit, closing_balance = last.balance and minimum_balance is the
\* least balance of the month; the call leaves the sequence it was given
\* as it was.
C22_MonthBoundaries ==
    [][MonthlyReturns
       => /\ args' = args
          /\ MonthsCover(ret', args[1])
          /\ \A m \in 1..Len(ret') :
                 MonthBoundaries(ret'[m], InMonth(args[1], ret'[m].year_month))]_vars

\* A month given as (17 June, 5 June): the opening balance is the one
\* before 5 June's credit, the closing balance the one of 17 June.
C22_JuneOutOfOrder ==
    /\ callee = "analyze_monthly_transactions"
    /\ returned
    /\ args[1] = <<Transaction(DateText(2024, 6, 17), <<"Transfer">>, 100 * Scale,
                               0, 500 * Scale),
                   Transaction(DateText(2024, 6, 5), <<"IPS", " ", "Transfer">>, 0,
                               200 * Scale, 700 * Scale)>>
    /\ Len(ret) = 1
    /\ ret[1].opening_balance = 500 * Scale
    /\ ret[1].closing_balance = 500 * Scale
    /\ ret[1].minimum_balance = 500 * Scale

\* 'IPS' in description
Marked(t) == IsSubstr(InternationalMarker, t.description)

\* The marked transactions of a group that have a credit, by position.
Inward(group) == {k \in 1..Len(group) : Marked(group[k]) /\ group[k].credit > 0}

\* The marked transactions of a group that have a debit, by position.
Outward(group) == {k \in 1..Len(group) : Marked(group[k]) /\ group[k].debit > 0}

InternationalCounted(month, group) ==
    /\ month.international_inward_count = Cardinality(Inward(group))
    /\ month.international_inward_total
         = IntSum([k \in 1..Len(group) |->
                      IF k \in Inward(group) THEN group[k].credit ELSE 0])
    /\ month.international_outward_count = Cardinality(Outward(group))
    /\ month.international_outward_total
         = IntSum([k \in 1..Len(group) |->
                      IF k \in Outward(group) THEN group[k].debit ELSE 0])
    /\ month.international_inward_count <= month.count
    /\ month.international_outward_count <= month.count
    /\ month.count = Len(group)

\* C23: in each month a transaction whose description contains "IPS" adds
\* 1 and its credit to the inward count and total if its credit is above 0,
\* and 1 and its debit to the outward count and total if its debit is above
\* 0 (both when both are); a transaction without the marker adds nothing;
\* so neither count exceeds the month's count.
C23_InternationalCounting ==
    (callee = "analyze_monthly_transactions" /\ returned)
    => \A m \in 1..Len(ret) :
           InternationalCounted(ret[m], InMonth(args[1], ret[m].year_month))

\* A month of an unmarked debit and a marked transaction with a debit and a
\* credit: the marked one is counted inward and outward.
C23_CountedBothWays ==
    /\ callee = "analyze_monthly_transactions"
    /\ returned
    /\ args[1] = <<Transaction(DateText(2024, 6, 17), <<"Transfer">>, 100 * Scale,
                               0, 500 * Scale),
                   Transaction(DateText(2024, 6, 17), <<"IPS", " ", "Payment">>,
                               50 * Scale, 20 * Scale, 450 * Scale)>>
    /\ ret[1].count = 2
    /\ ret[1].international_inward_count = 1
    /\ ret[1].international_outward_count = 1
    /\ ret[1].international_inward_total = 20 * Scale
    /\ ret[1].international_outward_total = 50 * Scale

-----------------------------------------------------------------------------
(* Properties of the grouping in process_bank_statement (Spec).            *)

\* process_bank_statement has returned its results.
Succeeded ==
    /\ pc = "returned"
    /\ result.kind = "dict"
    /\ "error" \notin DOMAIN result.value

C25_ParseMissesNeverErrors ==
    (Len(text_pages) >= 2 /\ Ended) => Succeeded
-----------------------------------------------------------------------------
(* Properties of overlapping logins (SpecLogins).                          *)

\* C26: whatever the number of login requests handled at the same time,
\* between two resets of the attempt counter at most MaxAttempts incorrect
\* passcodes are compared with the stored hash: no failed attempt is lost
\* when two requests read, increment and save the counter together.
C26_GuessingBounded == checked <= MaxAttempts

-----------------------------------------------------------------------------
(* Properties of the uploads and their background threads (SpecWorker).    *)

\* The upload id was created (upload_pdf started its thread then) and its
\* row is gone: stop_pdf_processing, delete_pdf_upload or a later
\* upload_pdf deleted it.
Deleted(id) == worker_pc[id] # "none" /\ id \notin DOMAIN uploads

\* C27: a deleted PDFUpload stays deleted: whatever its background thread
\* does after the deletion, no row with its id (and so no Transaction row
\* for it) is in the tables again.
C27_DeletionIsFinal ==
    [][\A id \in DOMAIN worker_pc :
           Deleted(id) => id \notin DOMAIN uploads']_vars

\* C28: an upload with processed = true, the one get_pdf_results answers as
\* 'completed', has as many Transaction rows as its total_transactions says
\* and no processing_error, at every point of its thread's run.
C28_CompletedIsPersisted ==
    \A id \in DOMAIN uploads :
        uploads[id].processed =>
            /\ uploads[id].transaction_rows = uploads[id].total_transactions
            /\ uploads[id].processing_error = None

\* What upload_pdf does by itself: an accepted file leaves the new row as
\* the only one with processed = false and the processed rows as they
\* were; a refused request leaves the tables and the threads alone.
UploadClearsPending ==
    [][UploadPdf =>
           IF response'.status = 202
           THEN /\ \E id \in (DOMAIN uploads') \ DOMAIN uploads :
                       /\ ~Deleted(id)
                       /\ Pending(uploads') = {id}
                       /\ uploads'[id] = NewUpload
                /\ \A id \in DOMAIN uploads :
                       IF uploads[id].processed
                       THEN id \in DOMAIN uploads' /\ uploads'[id] = uploads[id]
                       ELSE id \notin DOMAIN uploads'
           ELSE UNCHANGED <<uploads, worker_pc>>]_vars

\* C29: upload_pdf deletes every upload with processed = false before it
\* creates the new one, so that after any sequence of uploads handled one
\* after the other at most one PDFUpload has processed = false.
C29_SinglePending == Cardinality(Pending(uploads)) <= 1

-----------------------------------------------------------------------------
(* Properties of the threads that run to their end (SpecPolling).          *)

\* get_pdf_results answers for id with the status `status`.
Polled(id, status) ==
    id \in DOMAIN uploads /\ PollStatus(uploads[id]) = status

\* The thread of id has ended and, when the row of id is there, a poll is
\* answered 'completed' or 'error'.
FinalStatus(id) ==
    /\ WorkerAt(id, "done")
    /\ id \in DOMAIN uploads => ~Polled(id, "processing")

=============================================================================
